---- MODULE Spec2Model ----
(***************************************************************************)
(* Model of the formy worker: the Worker loop of                           *)
(* src/app/services/tasks/worker.py (TaskWorker) and src/worker.py         *)
(* (PipelineWorker), the TaskQueue and TaskService they call, and the      *)
(* retry loop of ExternalApiEngine                                         *)
(* (src/app/services/image/engines/external_api.py).                       *)
(*                                                                         *)
(* The TaskQueue (app/services/tasks/queue.py), the TaskService            *)
(* (app/services/tasks/manager.py) and PoseChangePipeline are imported by  *)
(* the workers but are not among the source files; they are modelled from  *)
(* sections 4.1, 4.2 and 4.4 of the specification.                         *)
(***************************************************************************)
EXTENDS Integers, Sequences, FiniteSets, TLC

VARIABLES
    \* ---- TaskQueue / TaskService (shared store) ----
    queue,          \* pending FIFO of task ids
    nextId,         \* next task id the producer will enqueue
    state,          \* state[t]: lifecycle state of the task record
    progress,       \* progress[t]: stored progress 0..100
    error,          \* error[t]: stored error code, "none" when absent
    result,         \* result[t]: stored result, "none" when absent
    details,        \* details[t]: stored error_details, "none" when absent
    \* ---- one Worker process per element of Workers ----
    deployed,       \* the worker processes that were launched
    pc,             \* position of the worker in start()/_process_task()
    is_running,     \* self.is_running
    cur,            \* task_id of the iteration (0: none)
    mode,           \* mode read from the payload by _process_task
    stepno,         \* index of the next progress write of the mode handler
    res,            \* value returned by _dispatch_to_pipeline
    \* ---- environment ----
    faults,         \* exceptions raised so far by the store and the disk
    \* ---- history (observation only, never read by the code) ----
    popCount,       \* popCount[t]: how many times pop returned t
    written,        \* written[w]: progress values w wrote for cur[w]
    termCalls,      \* termCalls[w]: complete_task/fail_task calls for cur[w]
    excSites,       \* excSites[w]: where exceptions were raised for cur[w]
    stranded,       \* tasks a worker process held, not yet terminal, when
                    \* it died
    marks,          \* marks[w]: update_task_progress(progress=0) calls of
                    \* _process_task for cur[w]
    pipeError,      \* pipeError[w]: error code of the failure result the
                    \* pipeline returned for cur[w], "none" when it did not
    \* ---- ExternalApiEngine (one execute call) ----
    epc,            \* position inside execute/_call_api_with_retry
    retry_times,    \* self.retry_times
    method,         \* self.method
    attempt,        \* loop variable of "for attempt in range(retry_times)"
    calls,          \* outcomes of the _call_api calls made, in order
    delays,         \* number of time.sleep(retry_delay) performed
    last_exception, \* last_exception of _call_api_with_retry
    raised,         \* what execute raised: failure named by the error
    config,         \* what get_config returns for the engine's settings
    input_data,     \* the input_data argument of execute
    kwargs,         \* the fields of the keyword arguments of execute
    request_data,   \* the body _prepare_request built: origin per field
    headers,        \* the headers of the last request: value per name
    response,       \* what the successful _call_api returned
    api_result,     \* what execute returned
    \* ---- ComfyUIEngine (one execute call) ----
    wf_pc,          \* position inside execute/_wait_for_completion
    wf_timeout,     \* self.timeout (seconds)
    poll_interval,  \* self.poll_interval (seconds)
    image_path,     \* image_path[slot]: an image path was supplied
    input_node,     \* input_node[slot]: the workflow node titled for slot
    uploaded_filename, \* what _upload_image_to_comfyui returned per slot
    prompt,         \* prompt[slot]: inputs.image of the node in the graph
    endpoints,      \* ComfyUI endpoints a request was sent to
    elapsed,        \* time.time() - start_time (seconds)
    history,        \* the last /history response
    status,         \* the last value of _get_prompt_status
    wf_raised,      \* what execute raised
    prompt_id,      \* what _submit_workflow read from the submit response
    workflow,       \* the shape of the workflow file
    prompt_keys,    \* the kinds of key of the graph _inject_input built
    outputs,        \* the outputs of the job in the /history response
    wf_output,      \* what _get_output returned
    \* ---- ImageEditService ----
    spc,            \* position inside execute_edit
    pipelines,      \* self._pipelines[mode]: the cached instance, 0 for none
    instances,      \* instances[mode]: how many Pipelines were constructed
    edits,          \* how many execute_edit calls were made
    edit_mode,      \* task_input.mode of the current call
    pipeline,       \* the instance _get_pipeline returned, 0 for none
    edit_result,    \* what the last execute_edit returned
    propagated,     \* an exception left execute_edit
    cache_hits,     \* how many dispatches returned a cached instance
    \* ---- generate_task_id (the producer's id generator) ----
    clock,          \* int(time.time()): the current second
    issued,         \* the task ids generated so far, in order
    \* ---- the entry point and the signals (history) ----
    health,         \* health[w]: what queue.health_check() returned to
                    \* the entry point of w ("unknown" before the call)
    signalled       \* signalled[w]: a shutdown signal was delivered to w
                    \* after its handlers were installed

\* the fields of the task records
rvars == <<state, progress, error, result, details>>
svars == <<queue, nextId, rvars>>
lvars == <<cur, mode, stepno, res>>
hvars == <<popCount, written, termCalls, excSites, stranded, marks,
           pipeError>>
wvars == <<svars, deployed, pc, is_running, lvars, faults, hvars, health,
           signalled>>
evars == <<epc, retry_times, method, attempt, calls, delays, last_exception,
           raised, config, input_data, kwargs, request_data, headers,
           response, api_result>>
gvars == <<wf_pc, wf_timeout, poll_interval, image_path, input_node,
           uploaded_filename, prompt, endpoints, elapsed, history, status,
           wf_raised, prompt_id, workflow, prompt_keys, outputs, wf_output>>
dvars == <<spc, pipelines, instances, edits, edit_mode, pipeline,
           edit_result, propagated, cache_hits>>
uvars == <<clock, issued>>
vars == <<wvars, evars, gvars, dvars, uvars>>
\* what no step of the loop or of the producer changes
xvars == <<deployed, evars, gvars, dvars, uvars>>
ovars == <<xvars, health, signalled>>

----------------------------------------------------------------------------
\* Bounds of the model
NumTasks == 2
NumWorkers == 2
MaxFaults == 2
MaxCallbacks == 1
MaxRetryTimes == 3
MaxTimeout == 2
MaxPollInterval == 2
MaxEdits == 4
MaxClock == 2
MaxIds == 3

Tasks == 1..NumTasks
Workers == 1..NumWorkers

\* EditMode (closed enum) and a value outside it
EditModes == {"HEAD_SWAP", "BACKGROUND_CHANGE", "POSE_CHANGE"}
PayloadModes == EditModes \cup {"OTHER"}

Terminal == {"COMPLETED", "FAILED"}

\* The two worker classes; both run against the same queue.
WorkerKind(w) == IF w % 2 = 1 THEN "TaskWorker" ELSE "PipelineWorker"

\* The outcome of a call to the backing store: it returns, it raises before
\* the write was applied, or it raises after the write was applied.
Outcomes == {"ok", "raise_before", "raise_after"}
\* A progress write is a single field update: it is applied or it raises.
ProgressOutcomes == {"ok", "raise_before"}
Applied(o) == o # "raise_before"
Raises(o) == o # "ok"

\* An exception of the environment (store unreachable, file missing): at
\* most MaxFaults of them in one run.
Fault == faults < MaxFaults /\ faults' = faults + 1
NoFault == UNCHANGED faults
Outcome(o) == IF Raises(o) THEN Fault ELSE NoFault

----------------------------------------------------------------------------
\* TaskQueue (section 4.1) and TaskService (section 4.2)

\* push(task_id, payload): the producer creates the task record (QUEUED,
\* progress 0) and appends the entry to the pending FIFO.
enqueue ==
    /\ nextId <= NumTasks
    /\ queue' = Append(queue, nextId)
    /\ state' = [state EXCEPT ![nextId] = "QUEUED"]
    /\ nextId' = nextId + 1
    /\ UNCHANGED <<progress, error, result, details, pc, is_running, lvars,
                   faults, hvars>>
    /\ UNCHANGED ovars

\* pop(timeout) on a non-empty list: returns the head and removes it in the
\* same atomic step.
PopHeadKeep(q) == q
PopHead(q) == Tail(q)
\* the entry pop returns: the oldest one
PopEntryNewest(q) == q[Len(q)]
PopEntry(q) == Head(q)

\* update_task_progress: QUEUED -> PROCESSING or PROCESSING -> PROCESSING,
\* stores the progress; a terminal task is left as it is.
update_task_progress(t, p, o) ==
    IF Applied(o) /\ state[t] \notin Terminal
    THEN /\ state' = [state EXCEPT ![t] = "PROCESSING"]
         /\ progress' = [progress EXCEPT ![t] = p]
         /\ UNCHANGED <<error, result, details>>
    ELSE UNCHANGED rvars

\* complete_task: -> COMPLETED, stores the result, progress forced to 100;
\* no-op on a terminal task.
complete_task(t, r, o) ==
    IF Applied(o) /\ state[t] \notin Terminal
    THEN /\ state' = [state EXCEPT ![t] = "COMPLETED"]
         /\ progress' = [progress EXCEPT ![t] = 100]
         /\ result' = [result EXCEPT ![t] = r]
         /\ UNCHANGED <<error, details>>
    ELSE UNCHANGED rvars

\* fail_task: -> FAILED, stores the error code (its message goes with it)
\* and the optional error_details; no-op on a terminal task.
fail_task_unguarded(t, code, d, o) ==
    IF Applied(o)
    THEN /\ state' = [state EXCEPT ![t] = "FAILED"]
         /\ error' = [error EXCEPT ![t] = code]
         /\ details' = [details EXCEPT ![t] = d]
         /\ UNCHANGED <<progress, result>>
    ELSE UNCHANGED rvars
fail_task(t, code, d, o) ==
    IF Applied(o) /\ state[t] \notin Terminal
    THEN /\ state' = [state EXCEPT ![t] = "FAILED"]
         /\ error' = [error EXCEPT ![t] = code]
         /\ details' = [details EXCEPT ![t] = d]
         /\ UNCHANGED <<progress, result>>
    ELSE UNCHANGED rvars

TermCall(op, code, o) == [op |-> op, code |-> code, raised |-> Raises(o)]

----------------------------------------------------------------------------
\* Worker: start(), _handle_shutdown()

\* run_worker()/run_pipeline_worker() construct the worker and call
\* start(): self.is_running = True, then the while loop begins.
start(w) ==
    /\ w \in deployed
    /\ pc[w] = "init"
    /\ is_running' = [is_running EXCEPT ![w] = TRUE]
    /\ pc' = [pc EXCEPT ![w] = "loop"]
    /\ UNCHANGED <<svars, lvars, faults, hvars>>
    /\ UNCHANGED ovars

\* What _dispatch_to_pipeline returns when it does not return None: a result
\* with output_image, with or without comparison_image.
Results == {"result", "result_cmp"}

\* Tasks the worker holds: popped and _process_task has not returned yet.
InTask == {"fetch", "mark", "dispatch", "step", "pipeline", "finish", "except"}
Holding(w) == IF pc[w] \in InTask THEN cur[w] ELSE 0

\* _dispatch_to_pipeline returns r: the locals of the mode handler are gone.
ReturnFromDispatch(w, r) ==
    /\ res' = [res EXCEPT ![w] = r]
    /\ UNCHANGED mode
    /\ stepno' = [stepno EXCEPT ![w] = 0]
    /\ pc' = [pc EXCEPT ![w] = "finish"]

\* _process_task goes to its except clause, returns, or an exception leaves
\* it: mode and the result of the dispatch are not read again.
LeaveTry(w) ==
    /\ res' = [res EXCEPT ![w] = "unset"]
    /\ mode' = [mode EXCEPT ![w] = "unset"]
    /\ written' = [written EXCEPT ![w] = <<>>]
    /\ UNCHANGED stepno

\* _handle_shutdown(signum, frame): runs between any two steps of the loop.
handle_shutdown(w) ==
    /\ pc[w] \notin {"init", "stopped"}
    /\ is_running[w]
    /\ is_running' = [is_running EXCEPT ![w] = FALSE]
    /\ signalled' = [signalled EXCEPT ![w] = TRUE]
    /\ UNCHANGED <<svars, pc, lvars, faults, hvars, health>>
    /\ UNCHANGED xvars

\* "while self.is_running:" - the loop test.
LoopTest(w) == IF is_running[w] THEN "pop" ELSE "stopped"

\* The loop test begins an iteration: task_id of the previous iteration (and
\* what was observed about it) is dead.
loop_test(w) ==
    /\ pc[w] = "loop"
    /\ pc' = [pc EXCEPT ![w] = LoopTest(w)]
    /\ cur' = [cur EXCEPT ![w] = 0]
    /\ written' = [written EXCEPT ![w] = <<>>]
    /\ termCalls' = [termCalls EXCEPT ![w] = <<>>]
    /\ excSites' = [excSites EXCEPT ![w] = {}]
    /\ pipeError' = [pipeError EXCEPT ![w] = "none"]
    /\ marks' = [marks EXCEPT ![w] = 0]
    /\ UNCHANGED <<svars, is_running, mode, stepno, res, faults, popCount>>
    /\ UNCHANGED stranded
    /\ UNCHANGED ovars

\* Where the loop goes when pop_task raised: "except Exception" of the loop.
PopRaisedExit(w) == "stopped"
PopRaised(w) == "sleep"

\* A variant of the loop that hands the task over and pops again at once
AfterPopAsync(w) == "pop"
\* "if task_id: self._process_task(task_id)": the loop calls _process_task
\* and waits for it to return.
AfterPop(w) == "fetch"

\* task_id = self.queue.pop_task(timeout=5): a task id, None on timeout, or
\* an exception when the store is unreachable (caught by the loop's handler).
pop_task(w) ==
    /\ pc[w] = "pop"
    /\ \/ /\ queue # <<>>
          /\ cur' = [cur EXCEPT ![w] = PopEntry(queue)]
          /\ queue' = PopHead(queue)
          /\ popCount' = [popCount EXCEPT ![PopEntry(queue)] = @ + 1]
          /\ pc' = [pc EXCEPT ![w] = AfterPop(w)]
          /\ NoFault
       \/ /\ queue = <<>>
          /\ pc' = [pc EXCEPT ![w] = "loop"]
          /\ NoFault
          /\ UNCHANGED <<queue, cur, popCount>>
       \/ /\ pc' = [pc EXCEPT ![w] = PopRaised(w)]
          /\ Fault
          /\ UNCHANGED <<queue, cur, popCount>>
    /\ UNCHANGED <<nextId, rvars, is_running, mode, stepno, pipeError, marks,
                   res, written, termCalls, excSites>>
    /\ UNCHANGED stranded
    /\ UNCHANGED ovars

\* "except Exception as e: ... time.sleep(1)" of the loop, then the next
\* loop test.
AfterSleep(w) == "loop"

loop_except_sleep(w) ==
    /\ pc[w] = "sleep"
    /\ pc' = [pc EXCEPT ![w] = AfterSleep(w)]
    /\ UNCHANGED <<svars, is_running, lvars, faults, hvars>>
    /\ UNCHANGED ovars

----------------------------------------------------------------------------
\* Worker: _process_task()

\* task_data = self.queue.get_task_data(task_id): the payload (its mode is
\* read into a local), None when the record is gone ("if not task_data:
\* return"), or an exception.
get_task_data(w) ==
    /\ pc[w] = "fetch"
    /\ \/ /\ \E m \in PayloadModes : mode' = [mode EXCEPT ![w] = m]
          /\ pc' = [pc EXCEPT ![w] = "mark"]
          /\ NoFault
          /\ UNCHANGED excSites
       \/ /\ pc' = [pc EXCEPT ![w] = "loop"]
          /\ NoFault
          /\ UNCHANGED <<mode, excSites>>
       \/ /\ pc' = [pc EXCEPT ![w] = "except"]
          /\ Fault
          /\ excSites' = [excSites EXCEPT ![w] = @ \cup {"fetch"}]
          /\ UNCHANGED mode
    /\ UNCHANGED <<svars, is_running, cur, stepno, res, popCount, pipeError,
                   marks,                   written,
                   termCalls>>
    /\ UNCHANGED stranded
    /\ UNCHANGED ovars

\* self.task_service.update_task_progress(task_id, progress=0, ...)
mark_processing(w) ==
    /\ pc[w] = "mark"
    /\ \E o \in ProgressOutcomes :
          /\ Outcome(o)
          /\ update_task_progress(cur[w], 0, o)
          /\ written' = [written EXCEPT ![w] = Append(@, 0)]
          /\ marks' = [marks EXCEPT ![w] = @ + 1]
          /\ IF Raises(o)
             THEN /\ pc' = [pc EXCEPT ![w] = "except"]
                  /\ mode' = [mode EXCEPT ![w] = "unset"]
                  /\ excSites' = [excSites EXCEPT ![w] = @ \cup {"mark"}]
             ELSE /\ pc' = [pc EXCEPT ![w] = "dispatch"]
                  /\ UNCHANGED <<mode, excSites>>
    /\ UNCHANGED <<queue, nextId, is_running, cur, stepno, res, popCount,
                   pipeError,
                   termCalls>>
    /\ UNCHANGED stranded
    /\ UNCHANGED ovars

\* Progress values written by TaskWorker._process_head_swap,
\* _process_background_change and _process_pose_change, in order.
HeadSwapStepsSwapped == <<30, 90, 60>>
HeadSwapSteps == <<30, 60, 90>>
BackgroundSteps == <<25, 50, 80>>
PoseSteps == <<20, 55, 90>>

TaskWorkerSteps(m) ==
    CASE m = "HEAD_SWAP" -> HeadSwapSteps
      [] m = "BACKGROUND_CHANGE" -> BackgroundSteps
      [] m = "POSE_CHANGE" -> PoseSteps
      [] OTHER -> <<>>

\* Progress values PoseChangePipeline may hand to its progress callback.
PipelineProgressValues == {30, 80}

\* _dispatch_to_pipeline: the branch on mode.  PipelineWorker sends
\* HEAD_SWAP and BACKGROUND_CHANGE to _process_mock, which returns a result
\* or catches its own exception and returns None.
dispatch_to_pipeline(w) ==
    /\ pc[w] = "dispatch"
    /\ LET m == mode[w] IN
       IF m \notin EditModes
       THEN /\ ReturnFromDispatch(w, "None")
            /\ NoFault
            /\ UNCHANGED excSites
       ELSE IF WorkerKind(w) = "TaskWorker"
       THEN /\ stepno' = [stepno EXCEPT ![w] = 1]
            /\ pc' = [pc EXCEPT ![w] = "step"]
            /\ NoFault
            /\ UNCHANGED <<mode, res, excSites>>
       ELSE IF m = "POSE_CHANGE"
       THEN /\ pc' = [pc EXCEPT ![w] = "pipeline"]
            /\ NoFault
            /\ UNCHANGED <<mode, res, stepno, excSites>>
       ELSE \/ /\ ReturnFromDispatch(w, "result")
               /\ NoFault
               /\ UNCHANGED excSites
            \/ /\ ReturnFromDispatch(w, "None")
               /\ Fault
               /\ excSites' = [excSites EXCEPT ![w] = @ \cup {"dispatch"}]
    /\ UNCHANGED <<svars, is_running, cur, popCount, pipeError, marks, written,
                   termCalls>>
    /\ UNCHANGED stranded
    /\ UNCHANGED ovars

\* One step of a TaskWorker mode handler: the local image step that precedes
\* the progress write (resolve_uploaded_file, copy_image_to_results; only in
\* _process_pose_change) and the write.  An exception of either is caught by
\* _dispatch_to_pipeline, which returns None.
LocalStepMayRaise(m, i) == m = "POSE_CHANGE" /\ i \in {1, 2}

\* create_comparison_image of _process_pose_change, between the writes of 55
\* and 90: the file is made, or the call raises and the handler goes on
\* without it ("except Exception as cmp_err: print").
ComparisonOutcomes(m, i) ==
    IF m = "POSE_CHANGE" /\ i = 3 THEN {"made", "raise"} ELSE {"none"}
ComparisonSite(c) == IF c = "raise" THEN {"comparison"} ELSE {}

\* 'if comparison_file: result_payload["comparison_image"] = ...'
ResultPayloadWithoutComparison(c) == "result"
ResultPayload(c) == IF c = "made" THEN "result_cmp" ELSE "result"

mode_step(w) ==
    /\ pc[w] = "step"
    /\ LET t == cur[w]
           steps == TaskWorkerSteps(mode[w])
           i == stepno[w]
       IN \/ /\ LocalStepMayRaise(mode[w], i)
             /\ Fault
             /\ ReturnFromDispatch(w, "None")
             /\ excSites' = [excSites EXCEPT ![w] = @ \cup {"dispatch"}]
             /\ UNCHANGED <<rvars, written>>
          \/ \E o \in ProgressOutcomes, c \in ComparisonOutcomes(mode[w], i) :
                /\ faults' = faults + Cardinality(ComparisonSite(c))
                                    + (IF Raises(o) THEN 1 ELSE 0)
                /\ faults' <= MaxFaults
                /\ update_task_progress(t, steps[i], o)
                /\ written' = [written EXCEPT ![w] = Append(@, steps[i])]
                /\ IF Raises(o)
                   THEN /\ ReturnFromDispatch(w, "None")
                        /\ excSites' = [excSites EXCEPT ![w] =
                              @ \cup {"dispatch"} \cup ComparisonSite(c)]
                   ELSE IF i = Len(steps)
                   THEN /\ ReturnFromDispatch(w, ResultPayload(c))
                        /\ excSites' = [excSites EXCEPT ![w] =
                              @ \cup ComparisonSite(c)]
                   ELSE /\ stepno' = [stepno EXCEPT ![w] = i + 1]
                        /\ UNCHANGED <<mode, res, pc, excSites>>
    /\ UNCHANGED <<queue, nextId, is_running, cur, popCount, pipeError, marks,
                   termCalls>>
    /\ UNCHANGED stranded
    /\ UNCHANGED ovars

\* PipelineWorker._process_pose_change: the pipeline reports progress through
\* progress_callback, which writes it with update_task_progress.
pipeline_callback(w) ==
    /\ pc[w] = "pipeline"
    /\ LET t == cur[w] IN
       /\ Len(written[w]) <= MaxCallbacks
       /\ \E p \in PipelineProgressValues, o \in ProgressOutcomes :
             /\ p >= written[w][Len(written[w])]
             /\ Outcome(o)
             /\ update_task_progress(t, p, o)
             /\ written' = [written EXCEPT ![w] = Append(@, p)]
             /\ IF Raises(o)
                THEN /\ ReturnFromDispatch(w, "None")
                     /\ excSites' = [excSites EXCEPT
                                       ![w] = @ \cup {"dispatch"}]
                ELSE UNCHANGED <<mode, stepno, res, pc, excSites>>
    /\ UNCHANGED <<queue, nextId, is_running, cur, popCount, pipeError, marks,
                   termCalls>>
    /\ UNCHANGED stranded
    /\ UNCHANGED ovars

\* Error codes of a failure result (PipelineBase._create_error_result)
PipelineErrorCodes == {"PIPELINE_ERROR", "PIPELINE_TIMEOUT"}

\* "else: print(result.error_message); return None": what
\* _process_pose_change hands back for a failure result with this code.
FailureResult(code) == "None"

\* result = self.pose_pipeline.execute(task_input): success (the comparison
\* image of the result is optional), a failure result, or an exception
\* caught by _process_pose_change; the last two make it return None.
pipeline_return(w) ==
    /\ pc[w] = "pipeline"
    /\ \/ /\ \E r \in Results : ReturnFromDispatch(w, r)
          /\ NoFault
          /\ UNCHANGED <<excSites, pipeError>>
       \/ /\ \E code \in PipelineErrorCodes :
                pipeError' = [pipeError EXCEPT ![w] = code]
          /\ ReturnFromDispatch(w, FailureResult(pipeError'[w]))
          /\ NoFault
          /\ UNCHANGED excSites
       \/ /\ ReturnFromDispatch(w, "None")
          /\ Fault
          /\ excSites' = [excSites EXCEPT ![w] = @ \cup {"dispatch"}]
          /\ UNCHANGED pipeError
    /\ UNCHANGED <<svars, is_running, cur, popCount, marks, written, termCalls>>
    /\ UNCHANGED stranded
    /\ UNCHANGED ovars

\* Where _process_task continues after its complete_task/fail_task call in
\* the try block: the except clause when the call raised, else it returns.
AfterTerminalFallThrough(o) == "except"
AfterTerminal(o) == IF Raises(o) THEN "except" ELSE "loop"

\* "if result: complete_task(task_id, result) else: fail_task(task_id,
\* PROCESSING_FAILED, ...)"
\* A variant of the Worker that pushes a failed task again
QueueAfterFailRequeued(q, t) == Append(q, t)
\* The pending list after the Worker recorded a failure: the Worker calls
\* no push, the list is as it was.
QueueAfterFail(q, t) == q

finish_task(w) ==
    /\ pc[w] = "finish"
    /\ LET t == cur[w] IN
       \E o \in Outcomes :
          /\ Outcome(o)
          /\ IF res[w] \in Results
             THEN /\ complete_task(t, res[w], o)
                  /\ UNCHANGED queue
                  /\ termCalls' = [termCalls EXCEPT
                        ![w] = Append(@, TermCall("complete", "none", o))]
             ELSE /\ fail_task(t, "PROCESSING_FAILED", "none", o)
                  /\ queue' = QueueAfterFail(queue, t)
                  /\ termCalls' = [termCalls EXCEPT
                        ![w] = Append(@, TermCall("fail",
                                                  "PROCESSING_FAILED", o))]
          /\ pc' = [pc EXCEPT ![w] = AfterTerminal(o)]
          /\ LeaveTry(w)
          /\ excSites' = [excSites EXCEPT ![w] =
                            IF Raises(o) THEN @ \cup {"terminal"} ELSE @]
    /\ UNCHANGED <<nextId, is_running, cur, popCount, pipeError, marks>>
    /\ UNCHANGED stranded
    /\ UNCHANGED ovars

\* error_code of the fail_task call in the except clause of _process_task
HandlerCodeProcessingFailed == "PROCESSING_FAILED"
HandlerCode == "INTERNAL_ERROR"

\* "except Exception as e: ... self.task_service.fail_task(INTERNAL_ERROR)".
\* An exception of this call leaves _process_task and reaches the handler of
\* the loop.
except_handler(w) ==
    /\ pc[w] = "except"
    /\ LET t == cur[w] IN
       \E o \in Outcomes :
          /\ Outcome(o)
          /\ fail_task(t, HandlerCode, "exception_text", o)
          /\ queue' = QueueAfterFail(queue, t)
          /\ termCalls' = [termCalls EXCEPT
                ![w] = Append(@, TermCall("fail", HandlerCode, o))]
          /\ pc' = [pc EXCEPT ![w] = IF Raises(o) THEN "sleep" ELSE "loop"]
    /\ UNCHANGED <<nextId, is_running, lvars, popCount, pipeError, marks,
                   written, excSites>>
    /\ UNCHANGED stranded
    /\ UNCHANGED ovars

----------------------------------------------------------------------------
\* The request fields the model tells apart: "image", which _prepare_request
\* writes for a string input, and one other field.
Keys == {"image", "seed"}
\* The header names a request can carry
HeaderNames == {"Content-Type", "Authorization", "X-API-Key", "X-Token"}
\* auth_type: the three schemes _call_api knows, and any other string
AuthTypes == {"Bearer", "ApiKey", "Custom", "Basic"}

\* input_data of execute: None, a dict with some of the fields, the path of
\* an existing file, or a path that does not exist
InputData ==
    {[kind |-> k, fields |-> {}] : k \in {"None", "path", "missing_path"}}
    \cup {[kind |-> "dict", fields |-> f] : f \in SUBSET Keys}

\* The configuration get_config reads when nothing was configured
DefaultConfig ==
    [extra_params |-> {}, encode_images |-> TRUE, api_key |-> FALSE,
     auth_type |-> "Bearer", auth_header |-> "Authorization",
     decode_result |-> FALSE]

\* What response.json() can be: not a mapping, or a mapping with or
\* without an "error" field, whose value under result_key is absent, a
\* string (base64 of an image or not), a mapping (with such an "image"
\* or without one) or a number, and whose own "image" field is absent or
\* such a string.
ResultShapes ==
    {"absent", "b64_string", "plain_string", "mapping_b64_image",
     "mapping_plain_image", "mapping_no_image", "number"}
Responses ==
    {[mapping |-> FALSE, error |-> FALSE, result |-> "absent",
      image |-> "absent"]}
    \cup {[mapping |-> TRUE, error |-> e, result |-> r, image |-> i] :
            e \in BOOLEAN, r \in ResultShapes,
            i \in {"absent", "b64_string", "plain_string"}}
NoApiResponse ==
    [mapping |-> FALSE, error |-> FALSE, result |-> "none", image |-> "none"]
NoResult == [from |-> "none", shape |-> "none", decoded |-> FALSE]
NoHeaders == [h \in HeaderNames |-> "absent"]
EmptyRequest == [k \in Keys |-> "absent"]

\* ExternalApiEngine is idle while the workers run.
EngineIdle ==
    /\ epc = "idle"
    /\ retry_times = 0
    /\ method = "POST"
    /\ attempt = 0
    /\ calls = <<>>
    /\ delays = 0
    /\ last_exception = "none"
    /\ raised = "none"
    /\ config = DefaultConfig
    /\ input_data = [kind |-> "None", fields |-> {}]
    /\ kwargs = {}
    /\ request_data = EmptyRequest
    /\ headers = NoHeaders
    /\ response = NoApiResponse
    /\ api_result = NoResult

\* The image inputs of a workflow: the original image and the pose reference
Slots == {"raw_image", "pose_image"}

\* The keys of a workflow file besides "nodes" that hold no node: "links"
\* holds a list, "extra" a mapping.
WrapperKeys == {"links", "extra"}
\* The shapes of a workflow file: "nodes" is absent, an empty list or a list
\* of nodes with ids; the entries under other keys than the wrappers are
\* none, mappings only (nodes keyed by id), or include one that is not a
\* mapping; any of the wrapper keys may be present.
Workflows ==
    {[nodes |-> n, entries |-> e, wrappers |-> ws] :
        n \in {"absent", "empty", "list"},
        e \in {"none", "mappings", "stray"},
        ws \in SUBSET WrapperKeys}
\* The file the editor saves: a node list with links and extra
NodeListWorkflow ==
    [nodes |-> "list", entries |-> "none", wrappers |-> WrapperKeys]
\* outputs and the returned value before _get_output ran
NoOutputs == [primary |-> FALSE, comparer |-> FALSE, other |-> FALSE]
NoOutput ==
    [output_image |-> "unset", comparison_image |-> "unset", images |-> <<>>]

\* history before the first status request
NoResponse ==
    [http |-> "none", entry |-> FALSE, outputs |-> FALSE, status |-> "absent"]

\* ComfyUIEngine is idle while the workers run.
ComfyIdle ==
    /\ wf_pc = "idle"
    /\ wf_timeout = 1
    /\ poll_interval = 1
    /\ image_path = [slot \in Slots |-> FALSE]
    /\ input_node = [slot \in Slots |-> "absent"]
    /\ uploaded_filename = [slot \in Slots |-> "no_upload"]
    /\ prompt = [slot \in Slots |-> "unbuilt"]
    /\ endpoints = {}
    /\ elapsed = 0
    /\ history = NoResponse
    /\ status = "none"
    /\ wf_raised = "none"
    /\ prompt_id = "unset"
    /\ prompt_keys = {}
    /\ outputs = NoOutputs
    /\ wf_output = NoOutput
    /\ workflow = NodeListWorkflow

\* ImageEditService after __init__: the cache is empty.
ServiceIdle ==
    /\ spc = "idle"
    /\ pipelines = [m \in EditModes |-> 0]
    /\ instances = [m \in EditModes |-> 0]
    /\ edits = 0
    /\ edit_mode = "none"
    /\ pipeline = 0
    /\ edit_result = [success |-> FALSE, by |-> "none"]
    /\ propagated = FALSE
    /\ cache_hits = 0

\* The store is empty and no worker holds anything.
WorkerFields ==
    /\ queue = <<>>
    /\ nextId = 1
    /\ state = [t \in Tasks |-> "NONE"]
    /\ progress = [t \in Tasks |-> 0]
    /\ error = [t \in Tasks |-> "none"]
    /\ result = [t \in Tasks |-> "none"]
    /\ details = [t \in Tasks |-> "none"]
    /\ is_running = [w \in Workers |-> FALSE]
    /\ cur = [w \in Workers |-> 0]
    /\ mode = [w \in Workers |-> "unset"]
    /\ stepno = [w \in Workers |-> 0]
    /\ res = [w \in Workers |-> "unset"]
    /\ faults = 0
    /\ popCount = [t \in Tasks |-> 0]
    /\ written = [w \in Workers |-> <<>>]
    /\ termCalls = [w \in Workers |-> <<>>]
    /\ excSites = [w \in Workers |-> {}]
    /\ pipeError = [w \in Workers |-> "none"]
    /\ marks = [w \in Workers |-> 0]
    /\ stranded = {}
    /\ signalled = [w \in Workers |-> FALSE]

\* The entry point found the queue healthy and constructed the worker.
WorkerInit ==
    /\ WorkerFields
    /\ pc = [w \in Workers |-> "init"]
    /\ health = [w \in Workers |-> "ok"]

\* No task id was generated yet.
IdIdle ==
    /\ clock = 0
    /\ issued = <<>>

Init ==
    /\ deployed = Workers
    /\ WorkerInit /\ EngineIdle /\ ComfyIdle /\ ServiceIdle /\ IdIdle

\* One worker process is launched, of either class.
SoloInit ==
    /\ deployed \in {{w} : w \in Workers}
    /\ WorkerInit /\ EngineIdle /\ ComfyIdle /\ ServiceIdle /\ IdIdle

WorkerStep(w) ==
    \/ start(w)
    \/ handle_shutdown(w)
    \/ loop_test(w)
    \/ pop_task(w)
    \/ loop_except_sleep(w)
    \/ get_task_data(w)
    \/ mark_processing(w)
    \/ dispatch_to_pipeline(w)
    \/ mode_step(w)
    \/ pipeline_callback(w)
    \/ pipeline_return(w)
    \/ finish_task(w)
    \/ except_handler(w)

Next ==
    \/ enqueue
    \/ \E w \in Workers : WorkerStep(w)

\* Every worker process is launched: they drain the queue concurrently.
Spec == Init /\ [][Next]_vars

\* A single worker process drains the queue.
SoloSpec == SoloInit /\ [][Next]_vars

----------------------------------------------------------------------------
\* Death of a worker process

\* What the death of the process that holds task t does to the pending
\* list: nothing, no component pushes t again.
QueueAfterCrashRequeued(q, t) == IF t = 0 THEN q ELSE Append(q, t)
QueueAfterCrash(q, t) == q

\* The process of worker w is killed (SIGKILL, power loss) at any point of
\* start(): its memory is gone, the store keeps what was written.
crash(w) ==
    /\ pc[w] \notin {"init", "stopped", "crashed"}
    /\ pc' = [pc EXCEPT ![w] = "crashed"]
    /\ is_running' = [is_running EXCEPT ![w] = FALSE]
    /\ cur' = [cur EXCEPT ![w] = 0]
    /\ mode' = [mode EXCEPT ![w] = "unset"]
    /\ stepno' = [stepno EXCEPT ![w] = 0]
    /\ res' = [res EXCEPT ![w] = "unset"]
    /\ written' = [written EXCEPT ![w] = <<>>]
    /\ termCalls' = [termCalls EXCEPT ![w] = <<>>]
    /\ excSites' = [excSites EXCEPT ![w] = {}]
    /\ marks' = [marks EXCEPT ![w] = 0]
    /\ pipeError' = [pipeError EXCEPT ![w] = "none"]
    /\ stranded' = stranded \cup
          {t \in {Holding(w)} : t # 0 /\ state[t] \notin Terminal}
    /\ queue' = QueueAfterCrash(queue, Holding(w))
    /\ signalled' = [signalled EXCEPT ![w] = FALSE]
    /\ UNCHANGED <<nextId, rvars, faults, popCount, health>>
    /\ UNCHANGED xvars

\* run_worker() is launched again: a new process, a new worker object.
relaunch(w) ==
    /\ pc[w] = "crashed"
    /\ pc' = [pc EXCEPT ![w] = "init"]
    /\ UNCHANGED <<svars, is_running, lvars, faults, hvars>>
    /\ UNCHANGED ovars

CrashNext ==
    \/ Next
    \/ \E w \in Workers : crash(w)
    \/ \E w \in Workers : relaunch(w)

CrashSpec == SoloInit /\ [][CrashNext]_vars

----------------------------------------------------------------------------
\* The entry point: run_worker() / run_pipeline_worker()

\* queue.health_check() -> bool (section 4.1): the backing store is
\* reachable or it is not.
HealthOutcomes == {"ok", "unreachable"}

\* A variant of the entry point that goes on whatever the check returned
AfterHealthCheckIgnored(h) == "healthy"
\* "if not queue.health_check(): ... sys.exit(1)"
AfterHealthCheck(h) == IF h = "ok" THEN "healthy" ELSE "exited"

\* queue = get_task_queue(); queue.health_check()
health_check(w) ==
    /\ w \in deployed
    /\ pc[w] = "entry"
    /\ \E h \in HealthOutcomes :
          /\ health' = [health EXCEPT ![w] = h]
          /\ pc' = [pc EXCEPT ![w] = AfterHealthCheck(h)]
    /\ UNCHANGED <<svars, is_running, lvars, faults, hvars, signalled>>
    /\ UNCHANGED xvars

\* worker = TaskWorker(): __init__ sets is_running = False and installs
\* _handle_shutdown for SIGINT and SIGTERM.
construct(w) ==
    /\ pc[w] = "healthy"
    /\ pc' = [pc EXCEPT ![w] = "init"]
    /\ is_running' = [is_running EXCEPT ![w] = FALSE]
    /\ UNCHANGED <<svars, lvars, faults, hvars, health, signalled>>
    /\ UNCHANGED xvars

\* _handle_shutdown(signum, frame) between __init__ and start(): the
\* handler is installed and start() has not assigned is_running yet.
handle_shutdown_early(w) ==
    /\ w \in deployed
    /\ pc[w] = "init"
    /\ ~signalled[w]
    /\ is_running' = [is_running EXCEPT ![w] = FALSE]
    /\ signalled' = [signalled EXCEPT ![w] = TRUE]
    /\ UNCHANGED <<svars, pc, lvars, faults, hvars, health>>
    /\ UNCHANGED xvars

\* The steps of the process of worker w, its signals apart
RunStep(w) ==
    \/ health_check(w)
    \/ construct(w)
    \/ start(w)
    \/ loop_test(w)
    \/ pop_task(w)
    \/ loop_except_sleep(w)
    \/ get_task_data(w)
    \/ mark_processing(w)
    \/ dispatch_to_pipeline(w)
    \/ mode_step(w)
    \/ pipeline_callback(w)
    \/ pipeline_return(w)
    \/ finish_task(w)
    \/ except_handler(w)

\* One worker process of either class is launched from its entry point.
LaunchInit ==
    /\ deployed \in {{w} : w \in Workers}
    /\ WorkerFields
    /\ pc = [w \in Workers |-> "entry"]
    /\ health = [w \in Workers |-> "unknown"]
    /\ EngineIdle /\ ComfyIdle /\ ServiceIdle /\ IdIdle

LaunchNext ==
    \/ enqueue
    \/ \E w \in Workers : RunStep(w)
    \/ \E w \in Workers : handle_shutdown(w)
    \/ \E w \in Workers : handle_shutdown_early(w)

LaunchSpec == LaunchInit /\ [][LaunchNext]_vars

\* The process is scheduled: a step of the worker that can be taken is
\* taken. Nothing obliges a signal or a producer.
LaunchLiveSpec == LaunchSpec /\ WF_vars(\E w \in Workers : RunStep(w))

----------------------------------------------------------------------------
\* ExternalApiEngine: execute(), _call_api_with_retry(), _call_api()

\* self.method: POST (default), GET, or a method _call_api does not support
Methods == {"POST", "GET", "PUT"}

\* What one _call_api call does: it returns the JSON response, or it raises
\* for a timeout, an HTTP 4xx/5xx status (raise_for_status), another
\* transport error, a body that is not JSON, or an unsupported method.
FailureClasses ==
    {"timeout", "http_error", "transport_error", "invalid_json", "value_error"}
CallOutcomes(m) ==
    IF m \in {"POST", "GET"}
    THEN {"ok", "timeout", "http_error", "transport_error", "invalid_json"}
    ELSE {"value_error"}

\* "except Exception as e" of _call_api_with_retry: the failure classes the
\* retry loop catches.
RetryableExceptHttp(k) == k # "http_error"
Retryable(k) == k \in FailureClasses

\* "for attempt in range(self.retry_times)": the number of iterations
LoopBoundPlusOne == retry_times + 1
LoopBound == retry_times

\* dict.update: the fields of ks are overwritten with values of origin tag
Update(d, ks, tag) == [k \in Keys |-> IF k \in ks THEN tag ELSE d[k]]

\* validate_input
validate_input == input_data.kind \in {"dict", "path"}

\* _prepare_request: the input's own fields (a copy of the dict, or the
\* base64 of the file under "image" when encode_images is set), then
\* request_data.update(kwargs), then request_data.update(extra_params).
\* Each field carries the origin of its value.
prepare_request ==
    LET own == [k \in Keys |->
                  IF input_data.kind = "dict" /\ k \in input_data.fields
                  THEN "input_data"
                  ELSE IF input_data.kind = "path" /\ config.encode_images
                          /\ k = "image"
                  THEN "base64"
                  ELSE "absent"]
    IN Update(Update(own, kwargs, "kwargs"),
              config.extra_params, "extra_params")

\* The headers _call_api builds: Content-Type, then, when an api_key is
\* configured, the header of the configured auth_type; an assignment to a
\* name already present replaces its value.
build_headers ==
    LET h0 == [NoHeaders EXCEPT !["Content-Type"] = "application/json"]
    IN IF ~config.api_key THEN h0
       ELSE IF config.auth_type = "Bearer"
       THEN [h0 EXCEPT !["Authorization"] = "Bearer api_key"]
       ELSE IF config.auth_type = "ApiKey"
       THEN [h0 EXCEPT !["X-API-Key"] = "api_key"]
       ELSE IF config.auth_type = "Custom"
       THEN [h0 EXCEPT ![config.auth_header] = "api_key"]
       ELSE h0

\* _parse_response on a mapping without "error": the value under
\* result_key, or the whole body when that field is absent; with
\* decode_result a base64 string, or the "image" field of a mapping, is
\* replaced by the decoded image, and a string base64_to_image rejects is
\* left as it is.
Decodes(shape) == shape \in {"b64_string", "mapping_b64_image"}
BodyShape(r) ==
    IF r.image = "b64_string" THEN "mapping_b64_image"
    ELSE IF r.image = "plain_string" THEN "mapping_plain_image"
    ELSE "mapping_no_image"
Extract(r) ==
    IF r.result # "absent"
    THEN [from |-> "result_key", shape |-> r.result, decoded |-> FALSE]
    ELSE [from |-> "body", shape |-> BodyShape(r), decoded |-> FALSE]
\* A variant that raises when the string is not an image
ParseRaisesOnUndecodable(r) ==
    r.mapping /\ (r.error \/ (config.decode_result
                               /\ Extract(r).shape = "plain_string"))
\* _parse_response raises exactly for a mapping with an "error" field
ParseRaises(r) == r.mapping /\ r.error
ParseResult(r) ==
    IF ~r.mapping
    THEN [from |-> "body", shape |-> "not_a_mapping", decoded |-> FALSE]
    ELSE [Extract(r) EXCEPT
            !.decoded = config.decode_result /\ Decodes(Extract(r).shape)]

cfgvars == <<config, input_data, kwargs>>

\* A variant of execute that logs the rejection and goes on to the calls
AfterRejectGoesOn == "call"
\* "if not self.validate_input(input_data): raise ValueError(...)"
AfterReject == "failed"

\* execute(): "if not self.validate_input(input_data): raise ValueError",
\* then _prepare_request (image_to_base64 may raise) and the entry of the
\* retry loop.  With retry_times = 0 the loop body never runs and the final
\* raise is reached at once.
execute_begin ==
    /\ epc = "start"
    /\ IF ~validate_input
       THEN /\ epc' = AfterReject
            /\ raised' = <<"invalid_input", "none">>
            /\ UNCHANGED request_data
       ELSE \/ /\ input_data.kind = "path" /\ config.encode_images
               /\ epc' = "failed"
               /\ raised' = <<"prepare_error", "none">>
               /\ UNCHANGED request_data
            \/ /\ request_data' = prepare_request
               /\ IF LoopBound > 0
                  THEN /\ epc' = "call"
                       /\ UNCHANGED raised
                  ELSE /\ epc' = "failed"
                       /\ raised' = <<"retries_exhausted", last_exception>>
    /\ UNCHANGED <<retry_times, method, attempt, calls, delays,
                   last_exception, cfgvars, headers, response, api_result>>
    /\ UNCHANGED <<wvars, uvars, gvars, dvars>>

\* A variant of the loop that sleeps after every failed attempt
SleepsAfterEvery(a) == TRUE
\* "if attempt < self.retry_times - 1: time.sleep(self.retry_delay)"
SleepsAfter(a) == a < LoopBound - 1

\* One iteration of the retry loop: "return self._call_api(request_data)",
\* or the except clause: last_exception = e, and either another iteration
\* follows (after the sleep) or the loop is over and the final raise names
\* last_exception.
call_api ==
    /\ epc = "call"
    /\ headers' = build_headers
    /\ \E k \in CallOutcomes(method) :
          /\ calls' = Append(calls, k)
          /\ IF k = "ok"
             THEN /\ epc' = "parse"
                  /\ response' \in Responses
                  /\ UNCHANGED <<last_exception, raised>>
             ELSE IF ~Retryable(k)
             THEN /\ epc' = "failed"
                  /\ raised' = <<"uncaught", <<k, Len(calls) + 1>>>>
                  /\ UNCHANGED <<last_exception, response>>
             ELSE /\ last_exception' = <<k, Len(calls) + 1>>
                  /\ UNCHANGED response
                  /\ IF SleepsAfter(attempt)
                     THEN /\ epc' = "sleep"
                          /\ UNCHANGED raised
                     ELSE /\ epc' = "failed"
                          /\ raised' = <<"retries_exhausted",
                                         last_exception'>>
    /\ UNCHANGED <<retry_times, method, attempt, delays, cfgvars,
                   request_data, api_result>>
    /\ UNCHANGED <<wvars, uvars, gvars, dvars>>

\* time.sleep(self.retry_delay), then the next iteration, or the final
\* raise when the range is exhausted.
retry_sleep ==
    /\ epc = "sleep"
    /\ delays' = delays + 1
    /\ attempt' = attempt + 1
    /\ IF attempt + 1 < LoopBound
       THEN /\ epc' = "call"
            /\ UNCHANGED raised
       ELSE /\ epc' = "failed"
            /\ raised' = <<"retries_exhausted", last_exception>>
    /\ UNCHANGED <<retry_times, method, calls, last_exception,
                   cfgvars, request_data, headers, response, api_result>>
    /\ UNCHANGED <<wvars, uvars, gvars, dvars>>

\* A variant of execute that parses inside the retry loop
AfterParseRaiseRetried == IF attempt < LoopBound - 1 THEN "sleep" ELSE "failed"
\* "result = self._parse_response(response)" stands after
\* _call_api_with_retry returned: what it raises leaves execute.
AfterParseRaise == "failed"

\* _parse_response: a response with a top-level "error" field raises,
\* otherwise execute returns the result.
parse_response ==
    /\ epc = "parse"
    /\ IF ParseRaises(response)
       THEN /\ epc' = AfterParseRaise
            /\ raised' = IF AfterParseRaise = "failed"
                          THEN <<"api_error", "none">> ELSE raised
            /\ UNCHANGED api_result
       ELSE /\ epc' = "done"
            /\ api_result' = ParseResult(response)
            /\ UNCHANGED raised
    /\ UNCHANGED <<retry_times, method, attempt, calls, delays,
                   last_exception, cfgvars, request_data, headers, response>>
    /\ UNCHANGED <<wvars, uvars, gvars, dvars>>

\* The state of an engine before execute is called
EngineStart ==
    /\ deployed = {}
    /\ WorkerInit
    /\ ComfyIdle
    /\ ServiceIdle
    /\ IdIdle
    /\ epc = "start"
    /\ attempt = 0
    /\ calls = <<>>
    /\ delays = 0
    /\ last_exception = "none"
    /\ raised = "none"
    /\ request_data = EmptyRequest
    /\ headers = NoHeaders
    /\ response = NoApiResponse
    /\ api_result = NoResult

\* One execute call on an engine of any retry_times and method, the rest of
\* the configuration being the default; no worker runs.
EngineInit ==
    /\ EngineStart
    /\ retry_times \in 0..MaxRetryTimes
    /\ method \in Methods
    /\ config = DefaultConfig
    /\ input_data \in InputData
    /\ kwargs = {}

EngineNext ==
    \/ execute_begin
    \/ call_api
    \/ retry_sleep
    \/ parse_response

EngineSpec == EngineInit /\ [][EngineNext]_vars

\* The configurations of the request body (any input, any caller
\* parameters, any extra_params) and of the authentication (any api_key,
\* auth_type and auth_header, decode_result set or not), each with the rest
\* at its default
BodyConfigs ==
    {[DefaultConfig EXCEPT !.extra_params = x, !.encode_images = e] :
        x \in SUBSET Keys, e \in BOOLEAN}
AuthConfigs ==
    {[DefaultConfig EXCEPT !.api_key = a, !.auth_type = t,
                           !.auth_header = h, !.decode_result = d] :
        a \in BOOLEAN, t \in AuthTypes, h \in HeaderNames, d \in BOOLEAN}

\* One execute call with two attempts at most and the default method, on
\* an engine of any of these configurations
RequestInit ==
    /\ EngineStart
    /\ retry_times = 2
    /\ method = "POST"
    /\ \/ /\ config \in BodyConfigs
          /\ input_data \in InputData
          /\ kwargs \in SUBSET Keys
       \/ /\ config \in AuthConfigs
          /\ input_data = [kind |-> "dict", fields |-> Keys]
          /\ kwargs = {}

RequestSpec == RequestInit /\ [][EngineNext]_vars

\* ---------------------------------------------------------------------
\* ComfyUIEngine (src/app/services/image/engines/comfyui_engine.py):
\* one call of execute.
\* ---------------------------------------------------------------------

\* What a workflow file holds for a slot: no node with the slot's title, or
\* a titled node without an "inputs" key, with a dict of inputs (prompt
\* format), or with a list of inputs (node-list format of the editor).
NodeKinds == {"absent", "no_inputs", "inputs_dict", "inputs_list"}

\* What a GET /history/{prompt_id} can bring back: the request raised
\* (connection error, timeout, body that is not JSON), a status code other
\* than 200, or a 200 whose body has or lacks the entry of the prompt; an
\* entry has or lacks "outputs", and its "status" is absent, a dict whose
\* status_str is "error", a dict with another status_str, or not a dict.
HttpKinds == {"exception", "not_200", "ok_200"}
StatusBlocks == {"absent", "error", "success", "not_a_dict"}
HistoryResponses ==
    {[http |-> h, entry |-> FALSE, outputs |-> FALSE, status |-> "absent"] :
        h \in HttpKinds}
    \cup {[http |-> "ok_200", entry |-> TRUE, outputs |-> o, status |-> s] :
        o \in BOOLEAN, s \in StatusBlocks}

\* A variant that reads the status block before it looks for outputs
get_prompt_status_error_first(r) ==
    IF r.http = "exception" THEN "executing"
    ELSE IF r.http = "ok_200" /\ r.entry
         THEN IF r.status = "not_a_dict" THEN "executing"
              ELSE IF r.status = "error" THEN "failed"
              ELSE IF r.outputs THEN "completed"
              ELSE "executing"
         ELSE "executing"
\* A variant that reports a query that raised as a failed job
get_prompt_status_raise_fails(r) ==
    IF r.http = "exception" THEN "failed"
    ELSE IF r.http = "ok_200" /\ r.entry
         THEN IF r.outputs THEN "completed"
              ELSE IF r.status = "not_a_dict" THEN "executing"
              ELSE IF r.status = "error" THEN "failed"
              ELSE "executing"
         ELSE "executing"
\* _get_prompt_status
get_prompt_status(r) ==
    IF r.http = "exception" THEN "executing"
    ELSE IF r.http = "ok_200" /\ r.entry
         THEN IF r.outputs THEN "completed"
              ELSE IF r.status = "not_a_dict" THEN "executing"
              ELSE IF r.status = "error" THEN "failed"
              ELSE "executing"
         ELSE "executing"

wf_fixed == <<wf_timeout, poll_interval, image_path, input_node, workflow>>

\* execute, steps 1 and 2: validate_input and _load_workflow
validate_and_load ==
    /\ wf_pc = "start"
    /\ \/ wf_pc' = "inject" /\ UNCHANGED wf_raised
       \/ wf_pc' = "failed" /\ wf_raised' \in {"ValueError", "load_failed"}
    /\ UNCHANGED <<wf_fixed, uploaded_filename, prompt, endpoints, elapsed,
                   history, status>>
    /\ UNCHANGED <<wvars, uvars, evars, dvars, prompt_id, prompt_keys, outputs,
                   wf_output>>

\* "is_prompt_format = all(... isinstance(v, dict) ... if k not in
\* ['nodes', 'links', 'extra', 'config'])"
IsPromptFormat(w) == w.entries # "stray"
\* The graph _inject_input builds from the workflow, as the kinds of key it
\* has: the ids of a non-empty node list; else, for the prompt format, a
\* copy of the whole file, the "nodes" key and the wrapper keys included;
\* else nothing.
Normalize(w) ==
    IF w.nodes = "list" THEN {"list_ids"}
    ELSE IF IsPromptFormat(w)
    THEN (IF w.entries = "mappings" THEN {"entry_ids"} ELSE {})
         \cup w.wrappers
         \cup (IF w.nodes = "empty" THEN {"nodes"} ELSE {})
    ELSE {}
\* The keys of the graph that hold nodes
NodeKeys == {"list_ids", "entry_ids"}
\* "title = node.get('title', '')" raises AttributeError for a value that
\* is a list.
ScanRaises(keys) == keys \cap {"nodes", "links"} # {}
\* The node titled for the slot is in the graph
Found(slot) ==
    input_node[slot] # "absent" /\ Normalize(workflow) \cap NodeKeys # {}

\* _inject_input uploads for a slot when a path was supplied and a node with
\* the slot's title was found.
Uploads(slot) == image_path[slot] /\ Found(slot)
\* prompt[node]["inputs"]["image"] = uploaded_filename raises a TypeError
\* when the node's inputs is a list.
InjectRaises(f, slot) ==
    Uploads(slot) /\ f[slot] = "name" /\ input_node[slot] = "inputs_list"
\* What _upload_image_to_comfyui can return for the slots: a filename, or
\* None (file missing, or any exception); the pose image is not uploaded
\* when injecting the raw image raised.
UploadResults ==
    {f \in [Slots -> {"no_upload", "None", "name"}] :
        /\ (f["raw_image"] = "no_upload") <=> ~Uploads("raw_image")
        /\ (f["pose_image"] = "no_upload") <=>
              (~Uploads("pose_image") \/ InjectRaises(f, "raw_image"))}
\* The image field of the slot's node in the graph _inject_input returns
ImageField(f, slot) ==
    IF ~Found(slot) THEN "no_node"
    ELSE IF f[slot] = "name" THEN "uploaded"
    ELSE "template"

\* execute, step 3: _inject_input
inject_input ==
    /\ wf_pc = "inject"
    /\ prompt_keys' = Normalize(workflow)
    /\ IF ScanRaises(prompt_keys')
       THEN /\ wf_pc' = "failed"
            /\ wf_raised' = "AttributeError"
            /\ UNCHANGED <<uploaded_filename, endpoints, prompt>>
       ELSE \E f \in UploadResults :
            /\ uploaded_filename' = f
            /\ endpoints' = endpoints \cup
                  {"/upload/image" :
                      slot \in {s \in Slots : f[s] # "no_upload"}}
            /\ IF \E slot \in Slots : InjectRaises(f, slot)
               THEN /\ wf_pc' = "failed"
                    /\ wf_raised' = "TypeError"
                    /\ UNCHANGED prompt
               ELSE /\ wf_pc' = "submit"
                    /\ prompt' = [slot \in Slots |-> ImageField(f, slot)]
                    /\ UNCHANGED wf_raised
    /\ UNCHANGED <<wf_fixed, elapsed, history, status>>
    /\ UNCHANGED <<wvars, uvars, evars, dvars, prompt_id, outputs, wf_output>>

\* execute, step 4: _submit_workflow; _wait_for_completion then reads
\* start_time.
\* What POST /prompt can bring back: a body with a prompt_id, a body
\* without one, a request error (connection, timeout, error status), or a
\* body that is not a mapping.
SubmitResponses == {"prompt_id", "no_prompt_id", "request_error", "malformed"}
\* What _submit_workflow raises for a response: RequestException is
\* re-raised as "提交工作流失败", everything else, the missing prompt_id
\* included, as "提交工作流异常".
SubmitRaises(r) ==
    IF r = "prompt_id" THEN "none"
    ELSE IF r = "request_error" THEN "submit_failed"
    ELSE "submit_exception"
\* A variant that goes on to wait whatever the body holds
AfterSubmitUnchecked(r) ==
    IF r \in {"prompt_id", "no_prompt_id"} THEN "wait" ELSE "failed"
\* Where execute stands after _submit_workflow
AfterSubmit(r) == IF SubmitRaises(r) = "none" THEN "wait" ELSE "failed"

submit_workflow ==
    /\ wf_pc = "submit"
    /\ endpoints' = endpoints \cup {"/prompt"}
    /\ \E r \in SubmitResponses :
        /\ wf_pc' = AfterSubmit(r)
        /\ wf_raised' = (IF wf_pc' = "failed" THEN SubmitRaises(r) ELSE "none")
        /\ prompt_id' = (IF r = "prompt_id" THEN "id"
                         ELSE IF r = "no_prompt_id" THEN "None"
                         ELSE "unset")
    /\ elapsed' = 0
    /\ UNCHANGED <<wf_fixed, uploaded_filename, prompt, history, status>>
    /\ UNCHANGED <<wvars, uvars, evars, dvars, prompt_keys, outputs, wf_output>>

\* A variant that interrupts the remote job when the time is out
EndpointsOnTimeoutCancel == endpoints \cup {"/interrupt"}
\* The requests made when the time is out: none
EndpointsOnTimeout == endpoints

\* the loop test of _wait_for_completion
TimedOut == elapsed > wf_timeout

\* _wait_for_completion, top of the loop
wait_test ==
    /\ wf_pc = "wait"
    /\ IF TimedOut
       THEN /\ wf_pc' = "failed"
            /\ wf_raised' = "TimeoutError"
            /\ endpoints' = EndpointsOnTimeout
       ELSE /\ wf_pc' = "poll"
            /\ UNCHANGED <<wf_raised, endpoints>>
    /\ UNCHANGED <<wf_fixed, uploaded_filename, prompt, elapsed, history,
                   status>>
    /\ UNCHANGED <<wvars, uvars, evars, dvars, prompt_id, prompt_keys, outputs,
                   wf_output>>

\* A variant that fetches the output as soon as the job has not failed
AfterPollEager(s) == IF s = "failed" THEN "failed" ELSE "output"
\* The branch of _wait_for_completion on the status: _get_output for
\* "completed", the raise for "failed", the sleep for anything else.
AfterPoll(s) ==
    IF s = "completed" THEN "output"
    ELSE IF s = "failed" THEN "failed"
    ELSE "wait"

\* _wait_for_completion, the rest of one iteration: the status request,
\* which takes d seconds, and the branch on its result; the sleep lasts
\* poll_interval seconds.
poll_status ==
    /\ wf_pc = "poll"
    /\ \E r \in HistoryResponses, d \in 0..1 :
        /\ history' = r
        /\ status' = get_prompt_status(r)
        /\ endpoints' = endpoints \cup {"/history"}
        /\ wf_pc' = AfterPoll(status')
        /\ IF wf_pc' = "output"
           THEN /\ elapsed' = elapsed + d
                /\ UNCHANGED wf_raised
           ELSE IF wf_pc' = "failed"
           THEN /\ wf_raised' = "workflow_failed"
                /\ elapsed' = elapsed + d
           ELSE /\ elapsed' = elapsed + d + poll_interval
                /\ UNCHANGED wf_raised
    /\ UNCHANGED <<wf_fixed, uploaded_filename, prompt>>
    /\ UNCHANGED <<wvars, uvars, evars, dvars, prompt_id, prompt_keys, outputs,
                   wf_output>>

\* The nodes that can have images in the outputs of a job: the node titled
\* "output:image:1", the node titled "output:image_comparer:2", and a node
\* with neither title
OutputNodes == <<"primary", "comparer", "other">>
\* The outputs of a job: which of these nodes have images; none has when
\* the graph held no node.
OutputsOf(w) ==
    IF Normalize(w) \cap NodeKeys = {}
    THEN {NoOutputs}
    ELSE [primary : BOOLEAN, comparer : BOOLEAN, other : BOOLEAN]
\* The orders in which outputs.items() can list the nodes
Orders ==
    {<<1, 2, 3>>, <<1, 3, 2>>, <<2, 1, 3>>, <<2, 3, 1>>, <<3, 1, 2>>,
     <<3, 2, 1>>}
\* _extract_output_images looks for the titles in workflow.get("nodes", []),
\* the node list of the file it loads again: a file in prompt format shows
\* it no title, and a load that raises is caught.
TitlesVisible(w, loads) == loads /\ w.nodes = "list"
Image(type, node) == [type |-> type, node |-> node]
TaggedImages(o, visible) ==
    (IF visible /\ o.primary THEN <<Image("output", "primary")>> ELSE <<>>)
    \o (IF visible /\ o.comparer
        THEN <<Image("comparison", "comparer")>> ELSE <<>>)
\* "if not images: for node_id, node_output in outputs.items()": every
\* node's images, typed "output"
FallbackImages(o, order) ==
    LET img(i) == IF o[OutputNodes[order[i]]]
                  THEN <<Image("output", OutputNodes[order[i]])>>
                  ELSE <<>>
    IN img(1) \o img(2) \o img(3)
extract_output_images(o, visible, order) ==
    IF TaggedImages(o, visible) # <<>>
    THEN TaggedImages(o, visible)
    ELSE FallbackImages(o, order)
\* The node of the last image of the type, "None" when there is none
LastOfType(images, type) ==
    LET idx == {i \in 1..Len(images) : images[i].type = type}
    IN IF idx = {} THEN "None"
       ELSE images[CHOOSE i \in idx : \A j \in idx : j <= i].node
\* What _get_output returns for the images: output_image is the last image
\* typed "output", or the first image when none is; comparison_image is
\* the last image typed "comparison".
OutputOf(images) ==
    [output_image |->
        IF LastOfType(images, "output") = "None" /\ images # <<>>
        THEN images[1].node
        ELSE LastOfType(images, "output"),
     comparison_image |-> LastOfType(images, "comparison"),
     images |-> images]

\* _get_output: a second request to /history, whose failure is raised;
\* the images of the outputs are extracted and the result is returned.
get_output ==
    /\ wf_pc = "output"
    /\ \/ /\ wf_pc' = "done"
          /\ \E o \in OutputsOf(workflow), loads \in BOOLEAN,
                order \in Orders :
                /\ outputs' = o
                /\ wf_output' = OutputOf(extract_output_images(
                                    o, TitlesVisible(workflow, loads), order))
          /\ UNCHANGED wf_raised
       \/ /\ wf_pc' = "failed"
          /\ wf_raised' = "output_failed"
          /\ UNCHANGED <<outputs, wf_output>>
    /\ UNCHANGED <<wf_fixed, uploaded_filename, prompt, endpoints, elapsed,
                   history, status>>
    /\ UNCHANGED <<wvars, uvars, evars, dvars, prompt_id, prompt_keys>>

\* One execute call: with the workflow file the editor saves, under any
\* timeout, poll interval, image paths and titled nodes; or with a workflow
\* file of any shape, the rest of the input being fixed.
ComfyInit ==
    /\ deployed = {}
    /\ WorkerInit
    /\ EngineIdle
    /\ ServiceIdle
    /\ IdIdle
    /\ wf_pc = "start"
    /\ \/ /\ workflow = NodeListWorkflow
          /\ wf_timeout \in 1..MaxTimeout
          /\ poll_interval \in 1..MaxPollInterval
          /\ image_path \in [Slots -> BOOLEAN]
          /\ input_node \in [Slots -> NodeKinds]
       \/ /\ workflow \in Workflows
          /\ wf_timeout = 1
          /\ poll_interval = 1
          /\ image_path = [slot \in Slots |-> TRUE]
          /\ input_node \in {[slot \in Slots |-> k] :
                                k \in {"absent", "inputs_dict"}}
    /\ uploaded_filename = [slot \in Slots |-> "no_upload"]
    /\ prompt = [slot \in Slots |-> "unbuilt"]
    /\ endpoints = {}
    /\ elapsed = 0
    /\ history = NoResponse
    /\ status = "none"
    /\ wf_raised = "none"
    /\ prompt_id = "unset"
    /\ prompt_keys = {}
    /\ outputs = NoOutputs
    /\ wf_output = NoOutput

ComfyNext ==
    \/ validate_and_load
    \/ inject_input
    \/ submit_workflow
    \/ wait_test
    \/ poll_status
    \/ get_output

ComfySpec == ComfyInit /\ [][ComfyNext]_vars

\* The interpreter runs the call to its end: every step that can be taken
\* is taken.
ComfyLiveSpec == ComfySpec /\ WF_vars(ComfyNext)

----------------------------------------------------------------------------
\* One execute call on either engine

ExecInit == EngineInit \/ ComfyInit

ExecNext ==
    \/ EngineNext
    \/ ComfyNext

ExecSpec == ExecInit /\ [][ExecNext]_vars

----------------------------------------------------------------------------
\* ImageEditService (src/app/services/image/edit_service.py): a series of
\* execute_edit calls on one service.

\* What pipeline.execute does: it returns a success result or a failure
\* result, or it raises.
PipelineOutcomes == {"success", "failure", "raise"}
\* What constructing a Pipeline does
ConstructorOutcomes == {"ok", "raise"}

NoEditResult == [success |-> FALSE, by |-> "none"]
\* EditTaskResult(success=False, error_message=...) built by execute_edit
\* for the reason named
EditFailure(reason) == [success |-> FALSE, by |-> reason]

\* A variant that constructs a Pipeline on every dispatch
CacheHitNever(m) == FALSE
\* "if mode in self._pipelines"
CacheHit(m) == m \in EditModes /\ pipelines[m] # 0

\* A variant whose except clause lets the exception of the pipeline through
CaughtByExecuteEditNot(site) == site # "pipeline"
\* "except Exception as e" of execute_edit covers the whole body
CaughtByExecuteEdit(site) == site \in {"constructor", "pipeline"}

\* A caller calls execute_edit with a task input of some mode.
execute_edit(m) ==
    /\ spc = "idle"
    /\ edits < MaxEdits
    /\ edits' = edits + 1
    /\ edit_mode' = m
    /\ spc' = "dispatch"
    /\ pipeline' = 0
    /\ edit_result' = NoEditResult
    /\ UNCHANGED <<pipelines, instances, propagated, cache_hits>>
    /\ UNCHANGED <<wvars, uvars, evars, gvars>>

\* What execute_edit does with an exception raised at the site
Raise(site) ==
    IF CaughtByExecuteEdit(site)
    THEN /\ edit_result' = EditFailure("exception")
         /\ UNCHANGED propagated
    ELSE /\ propagated' = TRUE
         /\ UNCHANGED edit_result

\* _get_pipeline and the test of its result: the cached instance, or a new
\* instance that is cached, or None for a mode outside the enum, for which
\* execute_edit returns a failure result.
get_pipeline ==
    /\ spc = "dispatch"
    /\ IF CacheHit(edit_mode)
       THEN /\ pipeline' = pipelines[edit_mode]
            /\ cache_hits' = cache_hits + 1
            /\ spc' = "run"
            /\ UNCHANGED <<pipelines, instances, edit_result, propagated>>
       ELSE IF edit_mode \in EditModes
       THEN \E c \in ConstructorOutcomes :
               /\ UNCHANGED cache_hits
               /\ IF c = "ok"
                  THEN /\ instances' =
                            [instances EXCEPT ![edit_mode] = @ + 1]
                       /\ pipelines' =
                            [pipelines EXCEPT
                               ![edit_mode] = instances'[edit_mode]]
                       /\ pipeline' = instances'[edit_mode]
                       /\ spc' = "run"
                       /\ UNCHANGED <<edit_result, propagated>>
                  ELSE /\ Raise("constructor")
                       /\ spc' = "idle"
                       /\ UNCHANGED <<pipelines, instances, pipeline>>
       ELSE /\ edit_result' = EditFailure("unsupported")
            /\ spc' = "idle"
            /\ UNCHANGED <<pipelines, instances, pipeline, propagated,
                           cache_hits>>
    /\ UNCHANGED <<edits, edit_mode>>
    /\ UNCHANGED <<wvars, uvars, evars, gvars>>

\* "result = pipeline.execute(task_input); return result"
pipeline_execute ==
    /\ spc = "run"
    /\ spc' = "idle"
    /\ \E o \in PipelineOutcomes :
          IF o = "raise"
          THEN Raise("pipeline")
          ELSE /\ edit_result' = [success |-> o = "success", by |-> "pipeline"]
               /\ UNCHANGED propagated
    /\ UNCHANGED <<pipelines, instances, edits, edit_mode, pipeline,
                   cache_hits>>
    /\ UNCHANGED <<wvars, uvars, evars, gvars>>

ServiceInit ==
    /\ deployed = {}
    /\ WorkerInit
    /\ EngineIdle
    /\ ComfyIdle
    /\ ServiceIdle
    /\ IdIdle

ServiceNext ==
    \/ \E m \in PayloadModes : execute_edit(m)
    \/ get_pipeline
    \/ pipeline_execute

ServiceSpec == ServiceInit /\ [][ServiceNext]_vars

----------------------------------------------------------------------------
\* generate_task_id (app/utils/id_generator.py)

\* ''.join(random.choices(string.ascii_lowercase + string.digits, k=6)):
\* every draw is independent of the earlier ones; three of the 36^6
\* strings stand for all of them.
RandomStrs == {"abc123", "k3x9qa", "zzzzz9"}

\* f"task_{timestamp}_{random_str}"
generate_task_id(timestamp, random_str) == <<"task", timestamp, random_str>>

\* One call of generate_task_id: timestamp = int(time.time()), then the draw.
generate ==
    /\ Len(issued) < MaxIds
    /\ \E random_str \in RandomStrs :
          issued' = Append(issued, generate_task_id(clock, random_str))
    /\ UNCHANGED <<wvars, evars, gvars, dvars, clock>>

\* A second passes.
tick ==
    /\ clock < MaxClock
    /\ clock' = clock + 1
    /\ UNCHANGED <<wvars, evars, gvars, dvars, issued>>

IdInit ==
    /\ deployed = {}
    /\ WorkerInit
    /\ EngineIdle
    /\ ComfyIdle
    /\ ServiceIdle
    /\ IdIdle

IdNext ==
    \/ generate
    \/ tick

IdSpec == IdInit /\ [][IdNext]_vars

----------------------------------------------------------------------------
\* Properties of the Worker loop

Last(sq) == sq[Len(sq)]

\* _process_task has returned, or an exception has left it, for task cur[w].
Processed(w) == pc[w] \in {"loop", "sleep"} /\ cur[w] # 0

FailCall(code) == {[op |-> "fail", code |-> code, raised |-> b] :
                     b \in BOOLEAN}

LegalTransitions ==
    {<<"NONE", "QUEUED">>, <<"QUEUED", "PROCESSING">>,
     <<"PROCESSING", "COMPLETED">>, <<"PROCESSING", "FAILED">>}

\* C1: the state of every task only moves QUEUED -> PROCESSING ->
\* {COMPLETED | FAILED}: COMPLETED and FAILED are entered from PROCESSING
\* only, and no step leaves them.
C1_OnlyLegalTransitions ==
    [][\A t \in Tasks :
         state'[t] # state[t] => <<state[t], state'[t]>> \in LegalTransitions]_vars

\* C2 (as claimed): for each popped task the worker issues at most one
\* terminal call (complete_task or fail_task).
C2_AtMostOneTerminalCall ==
    \A w \in Workers : Len(termCalls[w]) <= 1

\* C2 (amended): for each popped task the worker calls complete_task at most
\* once and issues at most two terminal calls; the second one is made only
\* after the first one raised, and it is fail_task(INTERNAL_ERROR) of the
\* except clause.
C2_SecondCallOnlyAfterRaise ==
    \A w \in Workers :
        /\ Len(termCalls[w]) <= 2
        /\ \A i \in 2..Len(termCalls[w]) : termCalls[w][i].op # "complete"
        /\ Len(termCalls[w]) = 2 =>
              /\ termCalls[w][1].raised
              /\ termCalls[w][1].code # "INTERNAL_ERROR"
              /\ termCalls[w][2] \in FailCall("INTERNAL_ERROR")

\* complete_task raised and the except clause then called fail_task.
C2_Witness ==
    \E w \in Workers :
        /\ Len(termCalls[w]) = 2
        /\ termCalls[w][1].op = "complete"
        /\ termCalls[w][2].op = "fail"

\* C3: once _process_task is over for a popped task, the task is COMPLETED
\* or FAILED.
C3_ProcessedTaskIsTerminal ==
    \A w \in Workers : Processed(w) => state[cur[w]] \in Terminal

InQueue(t) == Cardinality({i \in 1..Len(queue) : queue[i] = t})

\* C4: pop never hands one task id to two callers: no task is returned twice,
\* no two workers hold the same task, and every pushed entry is either still
\* pending or was returned exactly once.
C4_PopMutualExclusion ==
    /\ \A t \in Tasks : popCount[t] <= 1
    /\ \A t \in 1..(nextId - 1) : popCount[t] + InQueue(t) = 1
    /\ \A t \in nextId..NumTasks : popCount[t] = 0 /\ InQueue(t) = 0
    /\ \A w1, w2 \in Workers :
          (w1 # w2 /\ Holding(w1) # 0) => Holding(w1) # Holding(w2)

\* Every pushed entry was popped, and two workers hold a task each.
C4_Witness ==
    /\ nextId = NumTasks + 1
    /\ queue = <<>>
    /\ \E w1, w2 \in Workers :
          w1 # w2 /\ Holding(w1) # 0 /\ Holding(w2) # 0

NonDecreasing(sq) == \A i, j \in 1..Len(sq) : i <= j => sq[i] <= sq[j]

C6_AnyExceptionYieldsInternalError ==
    \A w \in Workers :
        (Processed(w) /\ excSites[w] # {}) =>
            \E i \in 1..Len(termCalls[w]) :
                termCalls[w][i] \in FailCall("INTERNAL_ERROR")

TaskLevelSites == {"fetch", "mark", "terminal"}

\* C6 (amended): an exception of the payload fetch, of the first progress
\* update or of the terminal call of the try block reaches the except clause,
\* whose fail_task call carries INTERNAL_ERROR; an exception raised inside
\* _dispatch_to_pipeline is caught there and the worker calls fail_task with
\* PROCESSING_FAILED; INTERNAL_ERROR is used in no other case, and the worker
\* is back in the loop.
C6_ExceptionSiteDecidesCode ==
    \A w \in Workers :
        /\ excSites[w] # {} => pc[w] \in InTask \cup {"loop", "sleep"}
        /\ Processed(w) =>
              /\ excSites[w] \cap TaskLevelSites # {} =>
                    Last(termCalls[w]) \in FailCall("INTERNAL_ERROR")
              /\ "dispatch" \in excSites[w] =>
                    termCalls[w][1] \in FailCall("PROCESSING_FAILED")
              /\ excSites[w] \cap TaskLevelSites = {} =>
                    \A i \in 1..Len(termCalls[w]) :
                        termCalls[w][i].code # "INTERNAL_ERROR"

\* An exception inside the dispatch ended in a FAILED task that carries
\* PROCESSING_FAILED.
C6_Witness ==
    \E w \in Workers :
        /\ Processed(w)
        /\ excSites[w] = {"dispatch"}
        /\ state[cur[w]] = "FAILED"
        /\ error[cur[w]] = "PROCESSING_FAILED"

\* C7: a loop-level exception (pop_task raising, or an exception leaving
\* _process_task because fail_task raised in the except clause) never ends
\* the loop: the worker sleeps, goes back to the loop test and, while
\* is_running is set, to pop_task; the loop is left only at a loop test that
\* sees is_running = False.
C7_LoopExitsOnlyOnShutdown ==
    [][\A w \in Workers :
         /\ (pc[w] # "stopped" /\ pc'[w] = "stopped")
               => (pc[w] = "loop" /\ ~is_running[w])
         /\ (pc[w] = "pop" /\ pc'[w] # "pop")
               => pc'[w] \in {"fetch", "loop", "sleep"}
         /\ (pc[w] = "except" /\ pc'[w] # "except")
               => pc'[w] \in {"loop", "sleep"}
         /\ (pc[w] = "sleep" /\ pc'[w] # "sleep") => pc'[w] = "loop"
         /\ (pc[w] = "loop" /\ is_running[w] /\ pc'[w] # "loop")
               => pc'[w] = "pop"]_vars

\* fail_task raised in the except clause, the exception left _process_task
\* and the worker, still running, is in the sleep of the loop's handler.
C7_Witness ==
    \E w \in Workers :
        /\ pc[w] = "sleep"
        /\ is_running[w]
        /\ termCalls[w] # <<>>
        /\ Last(termCalls[w]).raised
        /\ Last(termCalls[w]).code = "INTERNAL_ERROR"

\* C8: once _handle_shutdown has cleared is_running, no loop test leads to
\* another pop, and a task whose processing ends after that ends COMPLETED
\* or FAILED.
C8_GracefulShutdown ==
    [][\A w \in Workers :
         /\ (pc[w] = "loop" /\ ~is_running[w] /\ pc'[w] # "loop")
               => pc'[w] = "stopped"
         /\ (~is_running[w] /\ pc[w] \in InTask /\ pc'[w] \notin InTask)
               => state'[cur[w]] \in Terminal]_vars

----------------------------------------------------------------------------
\* Properties of ExternalApiEngine

Failed(i) == calls[i] # "ok"

\* C9: with retry_times >= 1, a success is returned by the first call that
\* succeeds, after failures only and within retry_times calls; when every
\* call fails, execute raises after exactly retry_times calls and its error
\* names the failure of the last call.
C9_RetryCount ==
    retry_times >= 1 =>
        /\ Len(calls) <= retry_times
        /\ \A i \in 1..(Len(calls) - 1) : Failed(i)
        /\ epc \in {"parse", "done"} => calls[Len(calls)] = "ok"
        /\ (epc = "failed" /\ raised[1] = "api_error") =>
              calls[Len(calls)] = "ok"
        /\ (epc = "failed" /\ raised[1] = "retries_exhausted") =>
              /\ Len(calls) = retry_times
              /\ \A i \in 1..Len(calls) : Failed(i)
              /\ raised[2] = <<calls[retry_times], retry_times>>
        /\ (epc = "failed" /\ calls # <<>>) =>
              raised[1] \in {"api_error", "retries_exhausted"}

\* Three calls failed for three different reasons, and the error names the
\* third.
C9_Witness ==
    /\ retry_times = 3
    /\ epc = "failed"
    /\ calls = <<"timeout", "http_error", "transport_error">>
    /\ raised = <<"retries_exhausted", <<"transport_error", 3>>>>

\* C10: every failed call, whatever its class, consumes one attempt and is
\* followed by another attempt while attempts remain: the engine is then in
\* the sleep before the next call, at the next call, or has made it.
C10_EveryFailureClassRetried ==
    /\ epc = "call" => attempt = Len(calls)
    /\ epc = "sleep" => attempt = Len(calls) - 1
    /\ \A i \in 1..Len(calls) :
          (Failed(i) /\ i < retry_times) =>
              \/ Len(calls) > i
              \/ (Len(calls) = i /\ epc \in {"sleep", "call"})

\* An HTTP error and a transport error were each followed by another call.
C10_Witness ==
    /\ epc = "done"
    /\ calls = <<"http_error", "transport_error", "ok">>

----------------------------------------------------------------------------
\* End-to-end scenarios

\* Error codes of the taxonomy that stand for an engine timeout
EngineTimeoutCodes == {"ENGINE_TIMEOUT", "PIPELINE_TIMEOUT"}

\* C11: the terminal write of a HEAD_SWAP task stores FAILED with an
\* engine-timeout-derived error code, and ExternalApiEngine made exactly 3
\* calls for it.
C11_HeadSwapFailsAfterThreeCalls ==
    [][\A w \in Workers :
         (pc[w] = "finish" /\ mode[w] = "HEAD_SWAP" /\ pc'[w] = "loop") =>
             /\ state'[cur[w]] = "FAILED"
             /\ error'[cur[w]] \in EngineTimeoutCodes
             /\ Len(calls') = 3]_vars

\* The terminal call of the try block is made for a POSE_CHANGE task and
\* returns.
PoseChangeFinishes(w) ==
    pc[w] = "finish" /\ mode[w] = "POSE_CHANGE" /\ pc'[w] = "loop"

----------------------------------------------------------------------------
\* Propagation of failures to the TaskService

\* C13: a task that failed after its pipeline returned a normalized failure
\* stores the error code of that failure, and no task record holds the text
\* of a raw exception.
C13_PipelineFailureCodeStored ==
    /\ \A w \in Workers :
          (Processed(w) /\ pipeError[w] # "none"
             /\ state[cur[w]] = "FAILED") => error[cur[w]] = pipeError[w]
    /\ \A t \in Tasks : details[t] # "exception_text"

----------------------------------------------------------------------------
\* The PROCESSING mark

\* Positions of _process_task after the update_task_progress(progress=0)
\* call returned.
AfterMark == {"dispatch", "step", "pipeline", "finish"}

\* C14: the QUEUED -> PROCESSING write (progress 0) is issued exactly once
\* for every popped task: never twice, once before the dispatch and every
\* later step, and once by the time _process_task is over.
C14_MarkedExactlyOnce ==
    \A w \in Workers :
        /\ marks[w] <= 1
        /\ pc[w] \in AfterMark =>
              /\ marks[w] = 1
              /\ written[w][1] = 0
              /\ state[cur[w]] = "PROCESSING"
        /\ Processed(w) => marks[w] = 1

----------------------------------------------------------------------------
\* Terminal task records

----------------------------------------------------------------------------
\* Order of the handoff

\* Task ids are handed out in push order, so a smaller id was pushed earlier.
PushedBefore(a, b) == a < b

\* C16: the pending entries are kept in push order and pop returns the one
\* pushed first: a popped task was pushed before every entry that is still
\* pending.
C16_FifoHandoff ==
    /\ \A i, j \in 1..Len(queue) : i < j => PushedBefore(queue[i], queue[j])
    /\ \A w \in Workers : \A i \in 1..Len(queue) :
          Holding(w) # 0 => PushedBefore(Holding(w), queue[i])
    /\ \A t \in Tasks : \A i \in 1..Len(queue) :
          popCount[t] > 0 => PushedBefore(t, queue[i])

\* Two entries were pending; pop returned task 1, pushed first, and task 2
\* is still pending.
C16_Witness ==
    /\ popCount[1] = 1
    /\ queue = <<2>>
    /\ \E w \in Workers : Holding(w) = 1 /\ pc[w] = "fetch"
    /\ nextId > 2

----------------------------------------------------------------------------
\* Tasks stranded by the death of a worker

\* No worker holds the task, it is not pending, and it was popped once.
OutOfReach(t) ==
    /\ InQueue(t) = 0
    /\ popCount[t] = 1
    /\ \A w \in Workers : Holding(w) # t

\* C17 (as claimed): a task whose worker died after the pop and before the
\* terminal write is PROCESSING in every later state, is never popped again
\* and is never pushed again.
C17_StrandedAtProcessing ==
    \A t \in stranded : state[t] = "PROCESSING" /\ OutOfReach(t)

\* C17 (amended): such a task is never terminal in a later state - it is
\* QUEUED when the worker died before the PROCESSING mark was applied, else
\* PROCESSING - and it is never popped again and never pushed again.
C17_StrandedNonTerminal ==
    \A t \in stranded :
        state[t] \in {"QUEUED", "PROCESSING"} /\ OutOfReach(t)

\* The worker died holding task 1; it was launched again and has completed
\* task 2, and task 1 is still PROCESSING.
C17_Witness ==
    /\ 1 \in stranded
    /\ state[1] = "PROCESSING"
    /\ state[2] = "COMPLETED"
    /\ \E w \in Workers : Processed(w) /\ cur[w] = 2


\* C18: whatever the history response, _get_prompt_status returns
\* "completed" when the entry of the prompt has an "outputs" key (also when
\* the same entry carries a status block reporting an error), "failed" when
\* the entry has no outputs and its status block reports an error, and
\* "executing" for every other response.
C18_StatusClassification ==
    history # NoResponse =>
        /\ (history.entry /\ history.outputs) => status = "completed"
        /\ (history.entry /\ ~history.outputs /\ history.status = "error")
              => status = "failed"
        /\ ~(history.entry /\ (history.outputs \/ history.status = "error"))
              => status = "executing"
C18_Witness ==
    /\ history.entry
    /\ history.outputs
    /\ history.status = "error"
    /\ status = "completed"
    /\ wf_pc = "output"


\* C19: after a successful submit, _wait_for_completion always ends, and it
\* ends in exactly one of: a returned result (the status was "completed"), a
\* failure (the status was "failed"), or a timeout failure raised once the
\* elapsed time exceeds the configured timeout.  This is the claim as
\* stated.
C19_EndsInResultFailedOrTimeout ==
    (wf_pc \in {"done", "failed"} /\ prompt_id = "id") =>
        \/ wf_pc = "done" /\ status = "completed"
        \/ wf_pc = "failed" /\ status = "failed"
        \/ wf_pc = "failed" /\ wf_raised = "TimeoutError"
              /\ status # "failed" /\ elapsed > wf_timeout

\* C19 (amended): after a successful submit, _wait_for_completion always
\* ends; it returns a result only after a "completed" status, it fails after
\* a "failed" status or when fetching the output of a "completed" job
\* fails, and it raises TimeoutError only at a loop test where the elapsed
\* time exceeds the timeout; no cancel request is ever sent.
C19_PollingTerminates ==
    /\ (wf_pc = "wait") ~> (wf_pc \in {"done", "failed"})
    /\ [](wf_pc = "done" => status = "completed" /\ wf_raised = "none")
    /\ [](wf_raised = "workflow_failed" =>
             wf_pc = "failed" /\ status = "failed")
    /\ [](wf_raised = "output_failed" =>
             wf_pc = "failed" /\ status = "completed")
    /\ [](wf_raised = "TimeoutError" =>
             wf_pc = "failed" /\ elapsed > wf_timeout
                 /\ status \in {"none", "executing"})
    /\ [](wf_pc = "failed" /\ "/history" \in endpoints =>
             wf_raised \in {"workflow_failed", "output_failed",
                            "TimeoutError"})
    /\ []("/interrupt" \notin endpoints)
C19_Witness ==
    /\ wf_pc = "failed"
    /\ wf_raised = "TimeoutError"
    /\ status = "executing"
    /\ "/history" \in endpoints
    /\ elapsed > wf_timeout


\* C20: when the workflow has a node titled as the raw image input and an
\* image path is supplied, the graph that is submitted has that node's image
\* field equal to the filename the upload returned; when no node carries the
\* title, no upload is made for that image and execute goes on to submit
\* without error.
C20_InjectedImageIsUploaded ==
    /\ ("/prompt" \in endpoints /\ image_path["raw_image"]
           /\ input_node["raw_image"] # "absent") =>
          /\ uploaded_filename["raw_image"] = "name"
          /\ prompt["raw_image"] = "uploaded"
    /\ (input_node["raw_image"] = "absent"
           /\ wf_pc \notin {"start", "inject"}
           /\ wf_raised \notin {"ValueError", "load_failed"}) =>
          /\ uploaded_filename["raw_image"] = "no_upload"
          /\ "/prompt" \in endpoints \/ wf_pc = "submit"


\* C21: when the submit response carries no prompt_id, execute fails with
\* ENGINE_RESPONSE_ERROR and makes no status poll and no output retrieval.
\* This is the claim as stated.
C21_NoPromptIdIsEngineResponseError ==
    prompt_id = "None" =>
        /\ wf_pc = "failed"
        /\ wf_raised = "ENGINE_RESPONSE_ERROR"
        /\ "/history" \notin endpoints

\* C21 (amended): when the submit response carries no prompt_id, execute
\* fails with the generic exception of _submit_workflow, which carries no
\* error code, and makes no status poll and no output retrieval.
C21_NoPromptIdFailsWithoutPoll ==
    prompt_id = "None" =>
        /\ wf_pc = "failed"
        /\ wf_raised = "submit_exception"
        /\ "/history" \notin endpoints
        /\ status = "none"
        /\ history = NoResponse
C21_Witness ==
    /\ prompt_id = "None"
    /\ wf_pc = "failed"
    /\ "/prompt" \in endpoints


\* C22: when a caller-supplied parameter and an engine-configured extra
\* parameter share a key, the request body carries the caller's value.
C22_CallerValueWins ==
    \A k \in Keys :
        (epc \in {"call", "sleep", "parse", "done"}
            /\ k \in kwargs /\ k \in config.extra_params)
        => request_data[k] = "kwargs"


\* C23: a response mapping with a top-level "error" field always makes
\* execute fail; otherwise the value under the configured result field is
\* returned, or the whole body when that field is absent; with decode
\* enabled a string that is not an image is returned unchanged, nothing
\* being raised, and a string that is one is returned decoded.
C23_ParseResponse ==
    (epc \in {"done", "failed"} /\ response # NoApiResponse) =>
        /\ (response.mapping /\ response.error) =>
              epc = "failed" /\ raised[1] = "api_error"
        /\ (response.mapping /\ ~response.error) =>
              /\ epc = "done"
              /\ response.result # "absent" =>
                    /\ api_result.from = "result_key"
                    /\ api_result.shape = response.result
              /\ response.result = "absent" => api_result.from = "body"
              /\ api_result.shape = "plain_string" => ~api_result.decoded
              /\ (config.decode_result /\ api_result.shape = "b64_string")
                    => api_result.decoded
              /\ ~config.decode_result => ~api_result.decoded
C23_Witness ==
    /\ epc = "done"
    /\ config.decode_result
    /\ response.mapping
    /\ response.result = "plain_string"
    /\ api_result =
          [from |-> "result_key", shape |-> "plain_string", decoded |-> FALSE]


C25_BoundaryNeverThrows ==
    /\ ~propagated
    /\ (spc = "idle" /\ edits > 0) =>
          /\ edit_result.by \in {"pipeline", "exception", "unsupported"}
          /\ edit_result.success => edit_result.by = "pipeline"
          /\ edit_mode \notin EditModes =>
                edit_result = EditFailure("unsupported")
C25_Witness ==
    /\ spc = "idle"
    /\ pipeline = 1
    /\ edit_result = EditFailure("exception")
    /\ ~propagated


\* C27: a workflow whose node entries are all mappings is taken as already
\* flat whatever nodes/links wrapper keys it has, a node-list workflow is
\* keyed by the id of each node, and in both cases the graph that
\* _inject_input builds is a flat mapping of node id to node: it holds
\* nothing but nodes.
C27_NormalizedGraphIsFlat ==
    (wf_pc \notin {"idle", "start", "inject"}
        /\ wf_raised \notin {"ValueError", "load_failed"}) =>
        /\ (workflow.entries = "mappings" /\ workflow.nodes # "list")
              => "entry_ids" \in prompt_keys
        /\ workflow.nodes = "list" => "list_ids" \in prompt_keys
        /\ prompt_keys \subseteq NodeKeys
        /\ wf_raised # "AttributeError"


\* C26: when the node tagged as primary output has images in the outputs,
\* the primary output is taken from that node and the comparison output
\* from the node tagged as comparison; the images of every node are reported
\* as primary only when no tagged node yields an image.
C26_TaggedOutputSelected ==
    wf_pc = "done" =>
        /\ outputs.primary =>
              /\ wf_output.output_image = "primary"
              /\ wf_output.comparison_image =
                    (IF outputs.comparer THEN "comparer" ELSE "None")
        /\ (\E i \in 1..Len(wf_output.images) :
               /\ wf_output.images[i].type = "output"
               /\ wf_output.images[i].node # "primary")
              => ~outputs.primary /\ ~outputs.comparer


\* C28: a task whose failure was recorded is never on the queue again: no
\* step of the Worker pushes, so every pushed entry is pending or was popped
\* once, and none is popped twice.
C28_FailedNeverRequeued ==
    /\ \A t \in Tasks : state[t] = "FAILED" => InQueue(t) = 0
    /\ \A t \in Tasks : popCount[t] <= 1 /\ InQueue(t) <= 1
    /\ \A t \in Tasks : popCount[t] = 1 => InQueue(t) = 0
C28_Witness ==
    /\ state[1] = "FAILED"
    /\ error[1] = "PROCESSING_FAILED"
    /\ popCount[2] = 1
    /\ queue = <<>>


\* C29: a Worker processes its tasks one after the other: it pops only when
\* it holds no task, the processing of the task it popped before having
\* returned (or its error handling having ended), and the task it pops is
\* the one it then processes; it never holds more than one.
C29_SequentialProcessing ==
    /\ [](\A w \in Workers :
             /\ pc[w] = "pop" => cur[w] = 0
             /\ pc[w] \in InTask => cur[w] # 0 /\ popCount[cur[w]] = 1)
    /\ [][\A w \in Workers :
             (cur'[w] # cur[w] /\ cur'[w] # 0) =>
                /\ pc[w] = "pop"
                /\ Holding(w) = 0
                /\ pc'[w] = "fetch"
                /\ popCount'[cur'[w]] = popCount[cur'[w]] + 1]_vars
C29_Witness ==
    \E w \in Workers :
        /\ Holding(w) = 2
        /\ pc[w] = "finish"
        /\ state[1] \in Terminal
        /\ popCount[1] = 1


\* C30: for every configuration with an API key, each request sent carries
\* exactly one authentication header, the one of the configured scheme:
\* Authorization with the bearer token, X-API-Key with the key, or the
\* custom header name with the key; never two and never none.
C30_ExactlyOneAuthHeader ==
    (config.api_key /\ headers # NoHeaders) =>
        /\ Cardinality({n \in HeaderNames :
                          headers[n] \in {"api_key", "Bearer api_key"}}) = 1
        /\ config.auth_type = "Bearer" =>
              headers["Authorization"] = "Bearer api_key"
        /\ config.auth_type = "ApiKey" => headers["X-API-Key"] = "api_key"
        /\ config.auth_type = "Custom" =>
              headers[config.auth_header] = "api_key"


\* C31: task ids are unique: any two calls of generate_task_id, also two in
\* the same second, return different ids.
C31_TaskIdsUnique ==
    \A i, j \in DOMAIN issued : i # j => issued[i] # issued[j]


\* C32: a shutdown signal delivered at any moment after the Worker installed
\* its handlers, also between construction and start() or during the sleep
\* after an error, eventually makes the loop exit.
C32_ShutdownNeverLost ==
    \A w \in Workers : signalled[w] ~> pc[w] = "stopped"


\* C40: when the queue health check fails at startup the entry point exits
\* without constructing the Worker: the process never runs the loop, no
\* pop is issued and no task record is modified (the tasks the producer
\* pushed stay QUEUED in the pending list).
C40_UnhealthyExitsBeforeWorker ==
    \A w \in Workers :
        health[w] = "unreachable" =>
            /\ pc[w] = "exited"
            /\ ~is_running[w]
            /\ cur[w] = 0
            /\ termCalls[w] = <<>> /\ written[w] = <<>> /\ marks[w] = 0
            /\ \A t \in Tasks :
                  /\ popCount[t] = 0
                  /\ state[t] \in {"NONE", "QUEUED"}
                  /\ progress[t] = 0
                  /\ error[t] = "none" /\ result[t] = "none"
                  /\ state[t] = "QUEUED" => InQueue(t) = 1
C40_Witness ==
    \E w \in Workers :
        /\ health[w] = "unreachable"
        /\ pc[w] = "exited"
        /\ Len(queue) = NumTasks


\* C33: the primary output _get_output reports is never an image of the
\* node titled as the comparison output: output_image comes from the node
\* titled as the primary output or from the fallback scan of the other
\* nodes, also when the primary node has no image and the comparison node
\* has one.
C33_PrimaryNeverComparison ==
    wf_pc = "done" => wf_output.output_image # "comparer"


\* C34: the graph submitted to /prompt holds node entries only: no wrapper
\* key of the loaded workflow (nodes, links, extra) is an entry of it, and
\* for a workflow taken as already flat the scan for the input-node titles
\* goes through every entry without raising.
C34_SubmittedGraphHoldsOnlyNodes ==
    /\ "/prompt" \in endpoints =>
          prompt_keys \cap (WrapperKeys \cup {"nodes"}) = {}
    /\ (wf_pc \notin {"idle", "start", "inject"}
          /\ wf_raised \notin {"ValueError", "load_failed"}
          /\ workflow.nodes # "list"
          /\ IsPromptFormat(workflow)) => ~ScanRaises(prompt_keys)


\* C35: a response that arrived and carries a top-level "error" field is not
\* retried: parsing runs after the retry loop returned, so the call that
\* delivered it is the last one, no delay follows it, and execute fails;
\* when that call was the first, execute fails after exactly one call.
C35_ErrorResponseNotRetried ==
    /\ []((epc = "failed" /\ raised[1] = "api_error") =>
             /\ ParseRaises(response)
             /\ Last(calls) = "ok"
             /\ Cardinality({i \in DOMAIN calls : calls[i] = "ok"}) = 1
             /\ delays = Len(calls) - 1
             /\ (attempt = 0 => calls = <<"ok">>))
    /\ [][(epc = "parse" /\ ParseRaises(response)) =>
             /\ epc' = "failed"
             /\ raised'[1] = "api_error"
             /\ calls' = calls
             /\ delays' = delays]_vars
C35_Witness ==
    /\ epc = "failed"
    /\ raised[1] = "api_error"
    /\ calls = <<"ok">>
    /\ retry_times = MaxRetryTimes
    /\ response.error


\* C36: the retry delay is waited only between attempts: a run of n failed
\* attempts followed by a success performs exactly n delays, a run in which
\* all retry_times attempts fail performs exactly retry_times - 1 delays,
\* and no delay follows the final attempt (every delay is followed by
\* another call).
C36_DelayOnlyBetweenAttempts ==
    /\ [](/\ epc \in {"parse", "done"} =>
                delays = Cardinality({i \in DOMAIN calls : Failed(i)})
          /\ (epc \in {"parse", "done"} \/ epc = "failed") =>
                (calls # <<>> => delays = Len(calls) - 1)
          /\ (epc = "failed" /\ raised[1] = "retries_exhausted"
                /\ retry_times >= 1) =>
                /\ Len(calls) = retry_times
                /\ delays = retry_times - 1
          /\ calls = <<>> => delays = 0)
    /\ [][delays' # delays =>
             /\ delays' = delays + 1
             /\ Failed(Len(calls))
             /\ Len(calls) < retry_times
             /\ epc' = "call"]_vars
C36_Witness ==
    /\ epc = "failed"
    /\ retry_times = MaxRetryTimes
    /\ raised[1] = "retries_exhausted"
    /\ delays = MaxRetryTimes - 1


\* A status query that failed: the request raised, the response was not a
\* 200, or the history has no entry for the prompt id.
QueryFailed(r) == r.http \in {"exception", "not_200"} \/ ~r.entry

\* C37: a failed status query during polling is treated as "executing": it
\* never fails the job by itself, and polling goes on, with another query
\* or with the timeout failure once the overall timeout is exceeded.
C37_FailedQueryKeepsPolling ==
    /\ [][(wf_pc = "poll" /\ QueryFailed(history')) =>
             /\ status' = "executing"
             /\ wf_pc' = "wait"
             /\ wf_raised' = wf_raised
             /\ "/history" \in endpoints']_vars
    /\ [](wf_raised = "workflow_failed" => ~QueryFailed(history))
    /\ [][(wf_pc = "wait" /\ QueryFailed(history)) =>
             \/ wf_pc' = "poll" /\ ~TimedOut
             \/ wf_pc' = "failed" /\ wf_raised' = "TimeoutError" /\ TimedOut]_vars
    /\ (wf_pc = "wait" /\ QueryFailed(history)) ~>
          (wf_pc = "poll" \/ wf_raised = "TimeoutError")
C37_Witness ==
    /\ wf_pc = "poll"
    /\ history.http = "exception"
    /\ status = "executing"
    /\ elapsed > 0
    /\ wf_raised = "none"


\* C38: when validate_input rejects the job, execute fails before any
\* external interaction: ExternalApiEngine builds no request and makes no
\* API call, and ComfyUIEngine uploads no image, submits no workflow and
\* polls no status.
C38_RejectedBeforeAnyInteraction ==
    /\ (epc \notin {"idle", "start"} /\ ~validate_input) =>
          /\ epc = "failed"
          /\ raised[1] = "invalid_input"
          /\ calls = <<>>
          /\ delays = 0
          /\ headers = NoHeaders
          /\ request_data = EmptyRequest
          /\ response = NoApiResponse
    /\ wf_raised = "ValueError" =>
          /\ wf_pc = "failed"
          /\ endpoints = {}
          /\ \A slot \in Slots : uploaded_filename[slot] = "no_upload"
          /\ prompt_id = "unset"
          /\ history = NoResponse
          /\ status = "none"
          /\ wf_output = NoOutput
C38_Witness ==
    /\ epc = "failed"
    /\ ~validate_input
    /\ raised[1] = "invalid_input"
    /\ retry_times = MaxRetryTimes
    /\ calls = <<>>


====
